---- MODULE Spec2Model ----
(***************************************************************************)
(* A model of the EROFS engine of dpeckett/archivefs: the image writer     *)
(* (erofs.Create) and the image reader (erofs.Open and the fs.FS methods   *)
(* of erofs.Filesystem), at the level of the bytes of the image.           *)
(*                                                                         *)
(* Bytes are the integers 0..255, byte strings (names, link targets, file  *)
(* contents, encoded records) are sequences of bytes, and an image is the  *)
(* bytes of the destination with the log of the positional writes made to  *)
(* it.  Integers of the model are below 2^31; the two 32-bit quantities    *)
(* that are not (the superblock magic and the CRC) are kept as their four  *)
(* little-endian bytes.                                                    *)
(***************************************************************************)
EXTENDS Integers, Sequences, FiniteSets, TLC

VARIABLES
    src,        \* the source filesystem handed to Create (fs.FS), and
                \* whether the destination is an *os.File
    pc,         \* the position of the run: Create's steps, then the reader
    inodes,     \* writer.inodes: path -> planned inode
    inodeOrder, \* writer.inodeOrder: the paths in walk order
    metaSize,   \* firstPass's metaSize result
    dataSize,   \* firstPass's dataSize result
    cursor,     \* index into inodeOrder of the write loops
    dst,        \* the destination (io.WriterAt): the image
    err,        \* the error Create returned ("" for nil)
    fs,         \* the Filesystem that erofs.Open returned for the image
    call        \* the last call made on the reader, with its outcome

vars == <<src, pc, inodes, inodeOrder, metaSize, dataSize, cursor, dst, err, fs, call>>

----------------------------------------------------------------------------
(* Program constants.                                                      *)

BlockSize == 4096
BlockSizeBits == 12
InodeSlotBits == 5
InodeSlotSize == 32
MaxInlineDataSize == 1024
SuperBlockOffset == 1024
SuperBlockSize == 128
MaxNameLen == 255
DirentSize == 12
InodeCompactSize == 32
InodeExtendedSize == 64
MaxUint16 == 65535

InodeLayoutCompact == 0
InodeLayoutExtended == 1
InodeDataLayoutFlatPlain == 0
InodeDataLayoutFlatInline == 2

FT_REG_FILE == 1
FT_DIR == 2
FT_CHRDEV == 3
FT_BLKDEV == 4
FT_FIFO == 5
FT_SOCK == 6
FT_SYMLINK == 7

\* mode_t values (octal 0170000, 0140000, ... in the source)
S_IFMT == 61440
S_IFSOCK == 49152
S_IFLNK == 40960
S_IFREG == 32768
S_IFBLK == 24576
S_IFDIR == 16384
S_IFCHR == 8192
S_IFIFO == 4096

\* SuperBlockMagicV1 = 0xe0f5e1e2, as little-endian bytes
SuperBlockMagicV1 == <<226, 225, 245, 224>>

----------------------------------------------------------------------------
(* Bytes and byte strings.                                                 *)

\* a local variable of the code: F applied to the value v
Bind(v, F(_)) == F(v)

Max(a, b) == IF a >= b THEN a ELSE b
Min(a, b) == IF a <= b THEN a ELSE b

Zeros(n) == [i \in 1..n |-> 0]

\* the n-byte little-endian encoding of v (binary.Write, LittleEndian)
RECURSIVE Pow256(_)
Pow256(k) == IF k = 0 THEN 1 ELSE 256 * Pow256(k - 1)
LE(v, n) == [i \in 1..n |-> IF i <= 3 THEN (v \div Pow256(i - 1)) % 256
                            ELSE IF i = 4 THEN v \div 16777216 ELSE 0]

\* the value of little-endian bytes b[from .. from+n-1] (binary.Read)
LEAt(b, from, n) ==
    LET B(i) == IF i <= n THEN b[from + i - 1] ELSE 0
    IN B(1) + 256 * B(2) + 65536 * B(3) + 16777216 * B(4)

SubBytes(b, from, n) == [i \in 1..n |-> b[from + i - 1]]

\* the first index in lo..hi at which a and b differ, or 0
RECURSIVE FirstDiff(_, _, _, _)
FirstDiff(a, b, lo, hi) ==
    IF lo > hi THEN 0
    ELSE IF lo = hi THEN (IF a[lo] # b[lo] THEN lo ELSE 0)
    ELSE Bind(FirstDiff(a, b, lo, (lo + hi) \div 2), LAMBDA left :
             IF left # 0 THEN left
             ELSE FirstDiff(a, b, ((lo + hi) \div 2) + 1, hi))

\* a comparison that stops at the end of the shorter operand
compareUpToShorter(a, b) ==
    Bind(FirstDiff(a, b, 1, Min(Len(a), Len(b))), LAMBDA i :
        IF i # 0 THEN (IF a[i] < b[i] THEN -1 ELSE 1) ELSE 0)

\* bytes.Compare: -1, 0 or 1
Compare(a, b) ==
    Bind(FirstDiff(a, b, 1, Min(Len(a), Len(b))), LAMBDA i :
        IF i # 0 THEN (IF a[i] < b[i] THEN -1 ELSE 1)
        ELSE IF Len(a) < Len(b) THEN -1
        ELSE IF Len(a) > Len(b) THEN 1
        ELSE 0)

\* bytes.IndexByte(b, 0): the 0-based index of the first NUL, or -1
IndexNul(b) ==
    Bind({i \in 1..Len(b) : b[i] = 0}, LAMBDA z :
        IF z = {} THEN -1 ELSE (CHOOSE i \in z : \A j \in z : i <= j) - 1)

\* roundUp(x, align) for align a power of two
roundUp(x, align) ==
    IF x % align = 0 THEN x ELSE ((x + align - 1) \div align) * align

\* bitRange(value, bit, bits) and setBits(value, newValue, bit, bits)
RECURSIVE Pow2(_)
Pow2(k) == IF k = 0 THEN 1 ELSE 2 * Pow2(k - 1)
bitRange(value, bit, bits) == (value \div Pow2(bit)) % Pow2(bits)
setBits(value, newValue, bit, bits) ==
    value - bitRange(value, bit, bits) * Pow2(bit)
          + (newValue % Pow2(bits)) * Pow2(bit)

----------------------------------------------------------------------------
(* CRC32 with the Castagnoli polynomial (hash/crc32), on 4-byte words.     *)

RECURSIVE XorN(_, _, _)
XorN(a, b, n) ==
    IF n = 0 THEN 0
    ELSE ((a + b) % 2) + 2 * XorN(a \div 2, b \div 2, n - 1)
Xor8Table == [a \in 0..255 |-> [b \in 0..255 |-> XorN(a, b, 8)]]
Xor8(a, b) == Xor8Table[a][b]
Xor16(a, b) == XorN(a, b, 16)

\* one table entry: 8 shift/xor steps on <<low 16 bits, high 16 bits>>,
\* with the reflected polynomial 0x82F63B78
RECURSIVE TabStep(_, _)
TabStep(c, k) ==
    IF k = 0 THEN c
    ELSE LET sh == <<(c[1] \div 2) + (c[2] % 2) * 32768, c[2] \div 2>>
         IN TabStep(IF c[1] % 2 = 1
                    THEN <<Xor16(sh[1], 15224), Xor16(sh[2], 33526)>>
                    ELSE sh, k - 1)
CastagnoliTable ==
    [i \in 0..255 |->
        LET w == TabStep(<<i, 0>>, 8)
        IN <<w[1] % 256, w[1] \div 256, w[2] % 256, w[2] \div 256>>]

CrcByte(crc, v) ==
    Bind(CastagnoliTable[Xor8(crc[1], v)], LAMBDA t :
        <<Xor8(t[1], crc[2]), Xor8(t[2], crc[3]), Xor8(t[3], crc[4]), t[4]>>)

RECURSIVE CrcRange(_, _, _, _)
CrcRange(crc, p, lo, hi) ==
    IF lo > hi THEN crc
    ELSE IF lo = hi THEN CrcByte(crc, p[lo])
    ELSE Bind(CrcRange(crc, p, lo, (lo + hi) \div 2), LAMBDA left :
             IF left[1] < 0 THEN left
             ELSE CrcRange(left, p, ((lo + hi) \div 2) + 1, hi))

Not32(w) == [i \in 1..4 |-> 255 - w[i]]

\* crc32.Update(crc, table, p); crc32.Checksum(p, table) = Update(0, table, p)
crc32Update(crc, p) == Not32(CrcRange(Not32(crc), p, 1, Len(p)))
crc32Checksum(p) == crc32Update(<<0, 0, 0, 0>>, p)

----------------------------------------------------------------------------
(* The destination: an image is its bytes, its length, and the log of the  *)
(* positional writes made to it (io.WriterAt), each with its offset and    *)
(* its number of bytes.  A byte never written reads as zero (a hole of the *)
(* file); a read that reaches past the length fails.                       *)

EmptyImage == [ext |-> <<>>, bytes |-> <<>>, len |-> 0]

\* dst.WriteAt(data, off); a write of no bytes is never made
WriteAt(img, off, data) ==
    IF Len(data) = 0 THEN img
    ELSE Bind(Max(img.len, off + Len(data)), LAMBDA len :
             [ext |-> Append(img.ext, [off |-> off, n |-> Len(data)]),
              bytes |-> [o \in 1..len |->
                           IF o > off /\ o <= off + Len(data) THEN data[o - off]
                           ELSE IF o <= img.len THEN img.bytes[o]
                           ELSE 0],
              len |-> len])

\* the byte at offset o
ByteAt(img, o) == img.bytes[o + 1]

\* Image.bytesAt(off, n): ReadAt fills the whole buffer or fails
bytesAt(img, off, n) ==
    IF off < 0 \/ off + n > img.len
    THEN [ok |-> FALSE, data |-> <<>>]
    ELSE [ok |-> TRUE, data |-> [i \in 1..n |-> img.bytes[off + i]]]

\* (*os.File).Truncate(size)
Truncate(img, size) ==
    [ext |-> img.ext,
     bytes |-> [o \in 1..size |-> IF o <= img.len THEN img.bytes[o] ELSE 0],
     len |-> size]

----------------------------------------------------------------------------
(* The source filesystem (fs.FS).  A path is the sequence of its names,    *)
(* the root "." is the empty sequence.  src.nodes maps each path to its    *)
(* node: mode (fs.FileMode: type, permission and special bits), data (the  *)
(* contents of a regular file, the target of a symlink), mtime (0 for the  *)
(* zero time.Time), uid and gid.                                           *)

Dot == <<46>>
DotDot == <<46, 46>>
Slash == 47

\* the names of the children of path
ChildNames(fsys, path) ==
    {p[Len(p)] : p \in {q \in DOMAIN fsys.nodes :
                           Len(q) = Len(path) + 1 /\ SubSeq(q, 1, Len(path)) = path}}

\* a set of names in ascending byte order, as fs.ReadDir returns them
SortNames(S) ==
    [i \in 1..Cardinality(S) |->
        CHOOSE x \in S : Cardinality({y \in S : Compare(y, x) < 0}) = i - 1]

\* fs.ReadDir(src, path): the names of the entries, sorted
srcReadDir(fsys, path) == SortNames(ChildNames(fsys, path))

\* fs.WalkDir(src, "."): lexical order, a directory before its entries
RECURSIVE WalkFrom(_, _)
RECURSIVE WalkEach(_, _, _, _)
WalkEach(fsys, path, names, i) ==
    IF i > Len(names) THEN <<>>
    ELSE WalkFrom(fsys, Append(path, names[i])) \o WalkEach(fsys, path, names, i + 1)
WalkFrom(fsys, path) ==
    <<path>> \o
    (IF fsys.nodes[path].mode.type = "dir"
     THEN WalkEach(fsys, path, srcReadDir(fsys, path), 1)
     ELSE <<>>)

\* fs.FileInfo.Size() of a source node
srcSize(node) == Len(node.data)

----------------------------------------------------------------------------
(* File modes and file types.                                              *)

\* mode & S_IFMT, for a 16-bit mode: the four high bits
statFormat(mode) == (mode \div 4096) * 4096

\* fileTypeFromFileMode(mode)
fileTypeFromFileMode(mode) ==
    CASE mode.type = "dir" -> FT_DIR
      [] mode.type = "lnk" -> FT_SYMLINK
      [] mode.type = "blk" -> FT_BLKDEV
      [] mode.type = "chr" -> FT_CHRDEV
      [] mode.type = "fifo" -> FT_FIFO
      [] mode.type = "sock" -> FT_SOCK
      [] OTHER -> FT_REG_FILE

\* statModeFromFileMode(mode)
statModeFromFileMode(mode) ==
    mode.perm
    + (CASE mode.type = "dir" -> S_IFDIR
         [] mode.type = "lnk" -> S_IFLNK
         [] mode.type = "blk" -> S_IFBLK
         [] mode.type = "chr" -> S_IFCHR
         [] mode.type = "fifo" -> S_IFIFO
         [] mode.type = "sock" -> S_IFSOCK
         [] OTHER -> S_IFREG)
    + (IF mode.setuid THEN 2048 ELSE 0)
    + (IF mode.setgid THEN 1024 ELSE 0)
    + (IF mode.sticky THEN 512 ELSE 0)

----------------------------------------------------------------------------
(* The writer: planned inodes and their encoding.                          *)

\* toInode(fi, nlink)
toInode(node, nlink) ==
    \* fi.Size() <= math.MaxUint32 holds of every size of the model
    LET compact == node.uid <= MaxUint16 /\ node.gid <= MaxUint16 /\ node.mtime = 0
    IN IF compact
       THEN [layout |-> "compact",
             Format |-> setBits(0, InodeLayoutCompact, 0, 1),
             XattrCount |-> 0,
             Mode |-> statModeFromFileMode(node.mode),
             Nlink |-> nlink % 65536,
             Size |-> 0, RawBlockAddr |-> 0, Ino |-> 0,
             UID |-> node.uid % 65536, GID |-> node.gid % 65536,
             Mtime |-> 0, MtimeNsec |-> 0]
       ELSE [layout |-> "extended",
             Format |-> setBits(0, InodeLayoutExtended, 0, 1),
             XattrCount |-> 0,
             Mode |-> statModeFromFileMode(node.mode),
             Nlink |-> nlink,
             Size |-> 0, RawBlockAddr |-> 0, Ino |-> 0,
             UID |-> node.uid, GID |-> node.gid,
             Mtime |-> node.mtime, MtimeNsec |-> 0]

\* binary.Size(ino)
inodeRecordSize(ino) ==
    IF ino.layout = "compact" THEN InodeCompactSize ELSE InodeExtendedSize

\* binary.Write(.., LittleEndian, ino) for InodeCompact and InodeExtended
encodeInode(ino) ==
    IF ino.layout = "compact"
    THEN LE(ino.Format, 2) \o LE(ino.XattrCount, 2) \o LE(ino.Mode, 2)
         \o LE(ino.Nlink, 2) \o LE(ino.Size, 4) \o Zeros(4)
         \o LE(ino.RawBlockAddr, 4) \o LE(ino.Ino, 4)
         \o LE(ino.UID, 2) \o LE(ino.GID, 2) \o Zeros(4)
    ELSE LE(ino.Format, 2) \o LE(ino.XattrCount, 2) \o LE(ino.Mode, 2)
         \o Zeros(2) \o LE(ino.Size, 8)
         \o LE(ino.RawBlockAddr, 4) \o LE(ino.Ino, 4)
         \o LE(ino.UID, 4) \o LE(ino.GID, 4)
         \o LE(ino.Mtime, 8) \o LE(ino.MtimeNsec, 4) \o LE(ino.Nlink, 4)
         \o Zeros(16)

\* isInlined(ino)
isInlined(ino) == bitRange(ino.Format, 1, 3) = InodeDataLayoutFlatInline

\* binary.Write(.., LittleEndian, dirent)
encodeDirent(d) == LE(d.Nid, 8) \o LE(d.NameOff, 2) \o <<d.FileType, 0>>

----------------------------------------------------------------------------
(* Directory payloads.                                                     *)

RECURSIVE ConcatRange(_, _, _)
ConcatRange(seqs, lo, hi) ==
    IF lo > hi THEN <<>>
    ELSE IF lo = hi THEN seqs[lo]
    ELSE LET mid == (lo + hi) \div 2
         IN ConcatRange(seqs, lo, mid) \o ConcatRange(seqs, mid + 1, hi)
Concat(seqs) == ConcatRange(seqs, 1, Len(seqs))

RECURSIVE SumLenRange(_, _, _)
SumLenRange(seqs, lo, hi) ==
    IF lo > hi THEN 0
    ELSE IF lo = hi THEN Len(seqs[lo])
    ELSE LET mid == (lo + hi) \div 2
         IN SumLenRange(seqs, lo, mid) + SumLenRange(seqs, mid + 1, hi)
SumLen(seqs, n) == SumLenRange(seqs, 1, n)

\* splitIntoDirentBlocks(dirents, names): the loop from entry i on, with the
\* blocks closed so far, the current block and its size
RECURSIVE splitLoop(_, _, _, _, _, _)
splitLoop(dirents, names, i, blocks, cur, curSize) ==
    IF i > Len(dirents)
    THEN IF Len(cur.entries) > 0 THEN Append(blocks, cur) ELSE blocks
    ELSE IF curSize + DirentSize + Len(names[i]) + 1 > BlockSize
    THEN splitLoop(dirents, names, i + 1, Append(blocks, cur),
                   [entries |-> <<dirents[i]>>, names |-> <<names[i]>>],
                   DirentSize + Len(names[i]))
    ELSE splitLoop(dirents, names, i + 1, blocks,
                   [entries |-> Append(cur.entries, dirents[i]),
                    names |-> Append(cur.names, names[i])],
                   curSize + DirentSize + Len(names[i]))
splitIntoDirentBlocks(dirents, names) ==
    splitLoop(dirents, names, 1, <<>>, [entries |-> <<>>, names |-> <<>>], 0)

\* one block of encodeDirents: the dirents with their name offsets, the
\* names, and the NUL after the last name
encodeBlock(block) ==
    Concat([i \in 1..Len(block.entries) |->
               encodeDirent([Nid |-> block.entries[i].Nid,
                             NameOff |-> (Len(block.entries) * DirentSize
                                          + SumLen(block.names, i - 1)) % 65536,
                             FileType |-> block.entries[i].FileType])])
    \o Concat(block.names)
    \o <<0>>

\* encodeDirents(dirents, names): every block but the last is padded to the
\* block boundary
padBlock(b, pad) ==
    IF pad THEN b \o Zeros(roundUp(Len(b), BlockSize) - Len(b)) ELSE b
RECURSIVE encodeLoop(_, _, _)
encodeLoop(blocks, i, buf) ==
    IF i > Len(blocks) THEN buf
    ELSE encodeLoop(blocks, i + 1,
                    padBlock(buf \o encodeBlock(blocks[i]), i < Len(blocks)))
encodeDirents(dirents, names) ==
    encodeLoop(splitIntoDirentBlocks(dirents, names), 1, <<>>)

\* the names of a directory's payload as dataForInode lists them: ".", ".."
\* unless the directory is the root, then the entries of fs.ReadDir
dirNames(fsys, path) ==
    <<Dot>> \o (IF path # <<>> THEN <<DotDot>> ELSE <<>>) \o srcReadDir(fsys, path)

\* the dirents of a directory's payload as dataForInode builds them
dirDirents(fsys, ino, path) ==
    Bind(srcReadDir(fsys, path), LAMBDA entries :
        <<[Nid |-> 0, FileType |-> fileTypeFromFileMode([type |-> "dir"])]>>
        \o (IF path # <<>>
            THEN <<[Nid |-> 0, FileType |-> fileTypeFromFileMode([type |-> "dir"])]>>
            ELSE <<>>)
        \o [i \in 1..Len(entries) |->
               [Nid |-> ino[Append(path, entries[i])].Ino,
                FileType |->
                    fileTypeFromFileMode(fsys.nodes[Append(path, entries[i])].mode)]])

\* the payload of a directory
dirData(fsys, ino, path) ==
    Bind(encodeDirents(dirDirents(fsys, ino, path), dirNames(fsys, path)),
         LAMBDA buf : [err |-> "", data |-> buf, size |-> Len(buf)])

\* writer.dataForInode(path, ino): the data of the node, its size, and the
\* error ("" for nil)
dataForFormat(fsys, ino, path, fmt) ==
    CASE fmt = S_IFREG ->
           [err |-> "", data |-> fsys.nodes[path].data,
            size |-> srcSize(fsys.nodes[path])]
      [] fmt = S_IFDIR -> dirData(fsys, ino, path)
      [] fmt = S_IFLNK ->
           IF ~fsys.readlink
           THEN [err |-> "source filesystem must implement readLinkFS",
                 data |-> <<>>, size |-> 0]
           ELSE [err |-> "", data |-> fsys.nodes[path].data,
                 size |-> Len(fsys.nodes[path].data)]
      [] OTHER ->
           [err |-> "unsupported file type", data |-> <<>>, size |-> 0]
dataForInode(fsys, ino, path) ==
    dataForFormat(fsys, ino, path, statFormat(ino[path].Mode))

----------------------------------------------------------------------------
(* The writer: populateInodes and firstPass.                               *)

\* writer.populateInodes: the inode of every node of the walk; a directory
\* has two links and one for every entry
linkCount(isDir, entries) == IF isDir THEN entries + 2 ELSE 1
populateInodes(fsys) ==
    Bind(WalkFrom(fsys, <<>>), LAMBDA order :
        [order |-> order,
         inodes |-> [path \in {order[i] : i \in 1..Len(order)} |->
                        toInode(fsys.nodes[path],
                                linkCount(fsys.nodes[path].mode.type = "dir",
                                          Len(srcReadDir(fsys, path))))]])

\* offsetToNID(metaOffset): the nid, or -1 for the alignment error
offsetToNID(metaOffset) ==
    IF metaOffset % InodeSlotSize # 0 THEN -1 ELSE metaOffset \div InodeSlotSize

\* a firstPass that never pads before an inlined inode
padNever(meta, recordSize, size) == meta

\* the metadata cursor after the padding firstPass makes before an inlined
\* inode that does not fit into the rest of the block
padForInline(meta, recordSize, size) ==
    Bind(roundUp(meta, BlockSize) - meta, LAMBDA spaceAvailable :
        IF spaceAvailable > 0 /\ recordSize + size > spaceAvailable
        THEN roundUp(meta, BlockSize)
        ELSE meta)

\* the metadata cursor left where the inlined data ends
advanceUnaligned(meta, recordSize, size) == meta + recordSize + size

\* the metadata cursor after an inlined inode and its data
advanceInline(meta, recordSize, size) ==
    roundUp(meta + recordSize + size, InodeSlotSize)

\* whether firstPass stores data of this size with the inode
inlineEligible(size) == size <= MaxInlineDataSize

\* the inode firstPass plans: its number, size, data layout and, out of
\* line, the block of its data counted from the start of the data region
planInode(ino, nid, size, inlined, data) ==
    [ino EXCEPT
       !.Ino = nid,
       !.Size = size,
       !.Format = setBits(@, IF inlined THEN InodeDataLayoutFlatInline
                                        ELSE InodeDataLayoutFlatPlain, 1, 3),
       !.RawBlockAddr = IF inlined THEN @ ELSE data \div BlockSize]

\* one iteration of firstPass's first loop once the size of the data is
\* known, with meta the metadata cursor after the padding
firstPassPlan(st, path, ino, size, inlined, meta) ==
    IF offsetToNID(meta) < 0
    THEN [st EXCEPT !.metaSize = meta, !.err = "offset is not properly aligned"]
    ELSE [inodes |-> [st.inodes EXCEPT
                        ![path] = planInode(ino, offsetToNID(meta), size,
                                            inlined, st.dataSize)],
          metaSize |-> IF inlined
                       THEN advanceInline(meta, inodeRecordSize(ino), size)
                       ELSE meta + inodeRecordSize(ino),
          dataSize |-> IF inlined THEN st.dataSize
                       ELSE roundUp(st.dataSize + size, BlockSize),
          err |-> ""]

\* one iteration of firstPass's first loop, on the planning state st
firstPassStep(fsys, st, path) ==
    Bind(dataForInode(fsys, st.inodes, path), LAMBDA d :
        IF d.err # "" THEN [st EXCEPT !.err = d.err]
        ELSE firstPassPlan(st, path, st.inodes[path], d.size,
                           inlineEligible(d.size),
                           IF inlineEligible(d.size)
                           THEN padForInline(st.metaSize,
                                             inodeRecordSize(st.inodes[path]),
                                             d.size)
                           ELSE st.metaSize))

RECURSIVE firstPassLoop(_, _, _, _)
firstPassLoop(fsys, order, i, st) ==
    IF i > Len(order) \/ st.err # "" THEN st
    ELSE firstPassLoop(fsys, order, i + 1, firstPassStep(fsys, st, order[i]))

\* the fix-up of one raw block address, with dataBlockAddr the first block
\* of the data region
fixupRawBlockAddr(addr, dataBlockAddr) ==
    IF addr > 0 THEN addr + dataBlockAddr ELSE addr

\* firstPass after its first loop: the metadata size rounded up to a block,
\* and the fix-up of the raw block addresses
firstPassFixup(st, meta) ==
    [inodes |-> [path \in DOMAIN st.inodes |->
                    [st.inodes[path] EXCEPT
                       !.RawBlockAddr =
                           fixupRawBlockAddr(@, 1 + (meta \div BlockSize))]],
     metaSize |-> meta,
     dataSize |-> st.dataSize,
     err |-> ""]

\* writer.firstPass: plan every inode, then fix up the raw block addresses
firstPass(fsys, order, ino) ==
    Bind(firstPassLoop(fsys, order, 1,
             [inodes |-> ino, metaSize |-> 0, dataSize |-> 0, err |-> ""]),
         LAMBDA st :
             IF st.err # "" THEN st
             ELSE firstPassFixup(st, roundUp(st.metaSize, BlockSize)))

----------------------------------------------------------------------------
(* The superblock.  Magic and Checksum are 4-byte words; the fields the    *)
(* writer leaves zero are written as zero bytes.                           *)

\* binary.Write(.., LittleEndian, sb): the 128 bytes of a SuperBlock
encodeSuperBlock(sb) ==
    sb.Magic \o sb.Checksum \o LE(sb.FeatureCompat, 4)
    \o <<sb.BlockSizeBits, 0>> \o LE(sb.RootNid, 2)
    \o LE(sb.Inodes, 8) \o Zeros(8) \o Zeros(4)
    \o LE(sb.Blocks, 4) \o LE(sb.MetaBlockAddr, 4) \o Zeros(4)
    \o Zeros(16) \o Zeros(16)
    \o LE(sb.FeatureIncompat, 4) \o Zeros(2) \o Zeros(2) \o Zeros(2)
    \o Zeros(38)

\* SuperBlock.checksum(): over the superblock with a zero checksum, then
\* over the rest of the first block taken to be zeroes
sbChecksum(sb) ==
    LET marshalled == encodeSuperBlock([sb EXCEPT !.Checksum = <<0, 0, 0, 0>>])
        off == SuperBlockOffset + SuperBlockSize
    IN Not32(crc32Update(crc32Checksum(marshalled), Zeros(BlockSize - off)))

\* the SuperBlock literal of writer.write, before the checksum
newSuperBlock(nInodes, meta, data, metaBlockAddr) ==
    [Magic |-> SuperBlockMagicV1,
     Checksum |-> <<0, 0, 0, 0>>,
     FeatureCompat |-> 0,
     BlockSizeBits |-> BlockSizeBits,
     RootNid |-> 0,
     Inodes |-> nInodes,
     Blocks |-> 1 + (meta + data) \div BlockSize,
     MetaBlockAddr |-> metaBlockAddr,
     FeatureIncompat |-> 0]

\* writer.write reserves the first block for the superblock
MetaBlockAddr == 1

\* the image offset of the inode record with this nid (writeMetadata)
inodeOffset(nid) == MetaBlockAddr * BlockSize + nid * InodeSlotSize

----------------------------------------------------------------------------
(* The reader: superblock and inodes.                                      *)

\* Image.unmarshalFrom(SuperBlockOffset, &sb): the fields of the 128 bytes
decodeSuperBlock(b) ==
    [Magic |-> SubBytes(b, 1, 4),
     Checksum |-> SubBytes(b, 5, 4),
     FeatureCompat |-> LEAt(b, 9, 4),
     BlockSizeBits |-> b[13],
     RootNid |-> LEAt(b, 15, 2),
     Inodes |-> LEAt(b, 17, 4),
     BuildTime |-> LEAt(b, 25, 4),
     Blocks |-> LEAt(b, 37, 4),
     MetaBlockAddr |-> LEAt(b, 41, 4),
     FeatureIncompat |-> LEAt(b, 81, 4),
     raw |-> b]

NoSuperBlock == decodeSuperBlock(Zeros(SuperBlockSize))

\* SuperBlock.BlockSize()
sbBlockSize(sb) == Pow2(sb.BlockSizeBits)

\* the checksum Image.verifyChecksum computes: over the superblock with a
\* zero checksum, then over the bytes of the image up to the end of the
\* first block
checksumOver(sb, buf) ==
    IF ~buf.ok THEN [ok |-> FALSE, sum |-> <<0, 0, 0, 0>>]
    ELSE [ok |-> TRUE,
          sum |-> Not32(crc32Update(
                      crc32Checksum([i \in 1..SuperBlockSize |->
                                        IF i \in 5..8 THEN 0 ELSE sb.raw[i]]),
                      buf.data))]
computedChecksum(img, sb) ==
    checksumOver(sb, bytesAt(img, SuperBlockOffset + SuperBlockSize,
                             sbBlockSize(sb) - (SuperBlockOffset + SuperBlockSize)))

\* a verifyChecksum that compares the checksums whatever the feature bits
verifyChecksumAlways(img, sb) ==
    Bind(computedChecksum(img, sb), LAMBDA c :
        IF ~c.ok THEN "image size is too small"
        ELSE IF c.sum # sb.Checksum THEN "invalid checksum"
        ELSE "")

\* Image.verifyChecksum(): "" for nil
verifyChecksum(img, sb) ==
    IF sb.FeatureCompat % 2 = 0 THEN ""
    ELSE Bind(computedChecksum(img, sb), LAMBDA c :
             IF ~c.ok THEN "image size is too small"
             ELSE IF c.sum # sb.Checksum THEN "invalid checksum"
             ELSE "")

\* Image.initSuperBlock() once the superblock is read
checkSuperBlock(img, sb) ==
    IF sb.Magic # SuperBlockMagicV1
    THEN [err |-> "unknown magic", sb |-> NoSuperBlock]
    ELSE Bind(verifyChecksum(img, sb), LAMBDA e :
             IF e # "" THEN [err |-> e, sb |-> NoSuperBlock]
             ELSE IF sb.FeatureIncompat # 0
             THEN [err |-> "unsupported incompatible features", sb |-> NoSuperBlock]
             ELSE [err |-> "", sb |-> sb])

\* Image.initSuperBlock()
initSuperBlock(img) ==
    Bind(bytesAt(img, SuperBlockOffset, SuperBlockSize), LAMBDA b :
        IF ~b.ok THEN [err |-> "EOF", sb |-> NoSuperBlock]
        ELSE checkSuperBlock(img, decodeSuperBlock(b.data)))

\* SuperBlock.NidToOffset(nid)
NidToOffset(sb, nid) == sb.MetaBlockAddr * sbBlockSize(sb) + nid * InodeSlotSize

NoInode ==
    [nid |-> 0, format |-> 0, mode |-> 0, size |-> 0, nlink |-> 0, uid |-> 0,
     gid |-> 0, mtime |-> 0, dataOff |-> 0, idataOff |-> 0, blocks |-> 0]

\* an inline-tail check that accepts every size
inlineTailAny(size, blockSize, recordSize) == TRUE

\* the inline-tail check of Image.Inode for a FlatInline inode
inlineTailOk(size, blockSize, recordSize) ==
    ~(size % blockSize = 0 \/ size % blockSize > blockSize - recordSize)

\* Inode.Layout() and Inode.DataLayout()
inodeLayout(format) == bitRange(format, 0, 1)
inodeDataLayout(format) == bitRange(format, 1, 3)

\* binary.Size of the on-disk inode of this format
inodeSizeOf(format) ==
    IF inodeLayout(format) = InodeLayoutCompact THEN InodeCompactSize
    ELSE InodeExtendedSize

\* the fields Image.Inode takes from the on-disk inode b read at off
decodeInode(sb, nid, off, format, b, blockSize) ==
    [nid |-> nid,
     format |-> format,
     mode |-> LEAt(b, 5, 2),
     size |-> LEAt(b, 9, 4),
     nlink |-> IF inodeLayout(format) = InodeLayoutCompact
               THEN LEAt(b, 7, 2) ELSE LEAt(b, 45, 4),
     uid |-> IF inodeLayout(format) = InodeLayoutCompact
             THEN LEAt(b, 25, 2) ELSE LEAt(b, 25, 4),
     gid |-> IF inodeLayout(format) = InodeLayoutCompact
             THEN LEAt(b, 27, 2) ELSE LEAt(b, 29, 4),
     mtime |-> IF inodeLayout(format) = InodeLayoutCompact
               THEN sb.BuildTime ELSE LEAt(b, 33, 4),
     dataOff |-> LEAt(b, 17, 4) * blockSize,
     idataOff |-> IF inodeDataLayout(format) = InodeDataLayoutFlatInline
                  THEN off + inodeSizeOf(format) ELSE 0,
     blocks |-> (LEAt(b, 9, 4) + (blockSize - 1)) \div blockSize]

\* the data-layout switch of Image.Inode
checkDataLayout(ino, blockSize) ==
    IF inodeDataLayout(ino.format) = InodeDataLayoutFlatInline
       /\ ~inlineTailOk(ino.size, blockSize, inodeSizeOf(ino.format))
    THEN [err |-> "inline data not found or cross block boundary", ino |-> NoInode]
    ELSE IF inodeDataLayout(ino.format)
              \notin {InodeDataLayoutFlatInline, InodeDataLayoutFlatPlain}
    THEN [err |-> "unsupported data layout", ino |-> NoInode]
    ELSE [err |-> "", ino |-> ino]

\* Image.Inode once the format is read: inodeCompactAt or inodeExtendedAt
inodeOfFormat(img, sb, nid, off, format) ==
    Bind(bytesAt(img, off, inodeSizeOf(format)), LAMBDA rec :
        IF ~rec.ok THEN [err |-> "EOF", ino |-> NoInode]
        ELSE IF LEAt(rec.data, 3, 2) # 0
        THEN [err |-> "unsupported xattr", ino |-> NoInode]
        ELSE checkDataLayout(decodeInode(sb, nid, off, format, rec.data,
                                         sbBlockSize(sb)),
                             sbBlockSize(sb)))

\* Image.Inode from inodeFormatAt(off) on
inodeAtOffset(img, sb, nid, off) ==
    IF off % InodeSlotSize # 0
    THEN [err |-> "invalid inode alignment", ino |-> NoInode]
    ELSE Bind(bytesAt(img, off, 2), LAMBDA fmt :
             IF ~fmt.ok THEN [err |-> "EOF", ino |-> NoInode]
             ELSE inodeOfFormat(img, sb, nid, off, LEAt(fmt.data, 1, 2)))

\* Image.Inode(nid): the decoded inode, or the error
imageInode(img, sb, nid) == inodeAtOffset(img, sb, nid, NidToOffset(sb, nid))

inoIsDir(ino) == statFormat(ino.mode) = S_IFDIR
inoIsSymlink(ino) == statFormat(ino.mode) = S_IFLNK
inoIsRegular(ino) == statFormat(ino.mode) = S_IFREG

----------------------------------------------------------------------------
(* The reader: directories.                                                *)

\* Inode.getBlockDataInfo(blockIdx)
blockDataInfo(ino, blockIdx, blockSize) ==
    [base |-> IF blockIdx # ino.blocks - 1 \/ ino.idataOff = 0
              THEN ino.dataOff + blockIdx * blockSize
              ELSE ino.idataOff,
     size |-> IF blockIdx = ino.blocks - 1 /\ ino.size % blockSize # 0
              THEN ino.size % blockSize ELSE blockSize]
getBlockDataInfo(sb, ino, blockIdx) == blockDataInfo(ino, blockIdx, sbBlockSize(sb))

NoDirent == [Nid |-> 0, NameOff |-> 0, FileType |-> 0]

\* binary.Read(.., LittleEndian, &dirent); the nids of the model are below
\* 2^31, the upper half of Nid is zero
decodeDirent(b) ==
    [Nid |-> LEAt(b, 1, 4), NameOff |-> LEAt(b, 9, 2), FileType |-> b[11]]

\* Image.direntAt(off)
direntAt(img, off) ==
    IF off % 4 # 0 THEN [err |-> "invalid dirent alignment", d |-> NoDirent]
    ELSE Bind(bytesAt(img, off, DirentSize), LAMBDA b :
             IF ~b.ok THEN [err |-> "EOF", d |-> NoDirent]
             ELSE [err |-> "", d |-> decodeDirent(b.data)])

\* the end of getDirentName for the last dirent of a block: the name stops
\* at the first NUL of the padding
trimName(name, n) ==
    IF n = 0 THEN [err |-> "corrupted dirent", name |-> <<>>]
    ELSE IF n # -1 THEN [err |-> "", name |-> SubSeq(name, 1, n)]
    ELSE [err |-> "", name |-> name]

\* getDirentName once nameLen is known; a negative nameLen stands for the
\* wrapped unsigned difference, which the checks reject as well
nameOfLen(img, d, block, lastDirent, nameLen) ==
    IF nameLen < 0 \/ d.NameOff + nameLen > block.size
       \/ nameLen > MaxNameLen \/ nameLen = 0
    THEN [err |-> "corrupted dirent", name |-> <<>>]
    ELSE Bind(bytesAt(img, block.base + d.NameOff, nameLen), LAMBDA raw :
             IF ~raw.ok THEN [err |-> "EOF", name |-> <<>>]
             ELSE IF lastDirent THEN trimName(raw.data, IndexNul(raw.data))
             ELSE [err |-> "", name |-> raw.data])

\* Inode.getDirentName(d, direntOff, block, lastDirent)
getDirentName(img, d, direntOff, block, lastDirent) ==
    IF lastDirent THEN nameOfLen(img, d, block, TRUE, block.size - d.NameOff)
    ELSE Bind(direntAt(img, direntOff + DirentSize), LAMBDA next :
             IF next.err # "" THEN [err |-> next.err, name |-> <<>>]
             ELSE nameOfLen(img, d, block, FALSE,
                            (next.d.NameOff - d.NameOff + 65536) % 65536))

\* Inode.getDirent0(block)
getDirent0(img, block) ==
    Bind(direntAt(img, block.base), LAMBDA r :
        IF r.err # "" THEN r
        ELSE IF r.d.NameOff < DirentSize \/ r.d.NameOff >= block.size
        THEN [err |-> "invalid nameOff0", d |-> NoDirent]
        ELSE r)

\* a dirent with its name, or the error of reading either
namedDirent(img, r, direntOff, block, lastDirent) ==
    IF r.err # "" THEN [err |-> r.err, d |-> NoDirent, name |-> <<>>]
    ELSE Bind(getDirentName(img, r.d, direntOff, block, lastDirent), LAMBDA nm :
             IF nm.err # "" THEN [err |-> nm.err, d |-> NoDirent, name |-> <<>>]
             ELSE [err |-> "", d |-> r.d, name |-> nm.name])

\* the second loop of Inode.Lookup: binary search among the dirents
\* dLeft..dRight of the target block
RECURSIVE lookupInBlock(_, _, _, _, _, _)
lookupInBlock(img, name, block, numDirents, dLeft, dRight) ==
    IF dLeft > dRight THEN [err |-> "ErrNotExist", d |-> NoDirent]
    ELSE Bind(namedDirent(img,
                  direntAt(img, block.base + ((dLeft + dRight) \div 2) * DirentSize),
                  block.base + ((dLeft + dRight) \div 2) * DirentSize,
                  block, (dLeft + dRight) \div 2 = numDirents - 1),
              LAMBDA e :
                  IF e.err # "" THEN [err |-> e.err, d |-> NoDirent]
                  ELSE CASE Compare(name, e.name) = 0 -> [err |-> "", d |-> e.d]
                         [] Compare(name, e.name) = 1 ->
                              lookupInBlock(img, name, block, numDirents,
                                            ((dLeft + dRight) \div 2) + 1, dRight)
                         [] OTHER ->
                              lookupInBlock(img, name, block, numDirents,
                                            dLeft, ((dLeft + dRight) \div 2) - 1))

\* the first dirent of a block with its name and the number of dirents
firstDirent(img, block, d0) ==
    IF d0.err # "" THEN [err |-> d0.err, d |-> NoDirent, name |-> <<>>]
    ELSE namedDirent(img, d0, block.base, block, d0.d.NameOff \div DirentSize = 1)

\* the first loop of Inode.Lookup: binary search for the block whose first
\* name is the greatest one below the name; target is the candidate so far
RECURSIVE lookupBlock(_, _, _, _, _, _, _)
RECURSIVE lookupBlockAt(_, _, _, _, _, _, _, _)
lookupBlockAt(img, sb, ino, name, bLeft, bRight, target, block) ==
    Bind(firstDirent(img, block, getDirent0(img, block)), LAMBDA e :
        IF e.err # "" THEN [err |-> e.err, d |-> NoDirent]
        ELSE CASE Compare(name, e.name) = 0 -> [err |-> "", d |-> e.d]
               [] Compare(name, e.name) = 1 ->
                    lookupBlock(img, sb, ino, name,
                                ((bLeft + bRight) \div 2) + 1, bRight,
                                [block |-> block,
                                 numDirents |-> e.d.NameOff \div DirentSize])
               [] OTHER ->
                    lookupBlock(img, sb, ino, name,
                                bLeft, ((bLeft + bRight) \div 2) - 1, target))
lookupBlock(img, sb, ino, name, bLeft, bRight, target) ==
    IF bLeft > bRight
    THEN IF target.block.base = 0
         THEN [err |-> "ErrNotExist", d |-> NoDirent]
         ELSE lookupInBlock(img, name, target.block, target.numDirents,
                            1, target.numDirents - 1)
    ELSE lookupBlockAt(img, sb, ino, name, bLeft, bRight, target,
                       getBlockDataInfo(sb, ino, (bLeft + bRight) \div 2))

\* Inode.Lookup(name)
Lookup(img, sb, ino, name) ==
    IF ~inoIsDir(ino) THEN [err |-> "ErrInvalid", d |-> NoDirent]
    ELSE lookupBlock(img, sb, ino, name, 0, ino.blocks - 1,
                     [block |-> [base |-> 0, size |-> 0], numDirents |-> 0])

\* the entries a loop hands to its callback before it stops: all of them
\* when none fails, else those before the first failure, with its error
upToFirstError(rs) ==
    Bind({i \in 1..Len(rs) : rs[i].err # ""}, LAMBDA bad :
        IF bad = {} THEN [err |-> "", n |-> Len(rs)]
        ELSE Bind(CHOOSE i \in bad : \A j \in bad : i <= j, LAMBDA first :
                 [err |-> rs[first].err, n |-> first - 1]))

\* the inner loop of IterDirents on one block: dirent k is read at
\* block.base + k * DirentSize, the last one is numDirents - 1
iterBlockEntries(img, block, numDirents) ==
    [i \in 1..numDirents |->
        namedDirent(img, direntAt(img, block.base + (i - 1) * DirentSize),
                    block.base + (i - 1) * DirentSize, block, i = numDirents)]
iterBlockUpTo(rs, stop) ==
    [err |-> stop.err,
     entries |-> [i \in 1..stop.n |->
                     [name |-> rs[i].name, typ |-> rs[i].d.FileType,
                      nid |-> rs[i].d.Nid]]]
iterBlockOf(rs) == iterBlockUpTo(rs, upToFirstError(rs))
iterBlock(img, block, d0) ==
    IF d0.err # "" THEN [err |-> d0.err, entries |-> <<>>]
    ELSE iterBlockOf(iterBlockEntries(img, block, d0.d.NameOff \div DirentSize))

\* the outer loop of IterDirents: the blocks in order, up to the first one
\* that fails
iterBlocksOf(rs, stop) ==
    [err |-> stop.err,
     entries |-> Concat([i \in 1..Len(rs) |->
                           IF i <= stop.n + 1 THEN rs[i].entries ELSE <<>>])]
iterBlocks(img, sb, ino) ==
    Bind([i \in 1..ino.blocks |->
             iterBlock(img, getBlockDataInfo(sb, ino, i - 1),
                       getDirent0(img, getBlockDataInfo(sb, ino, i - 1)))],
         LAMBDA rs : iterBlocksOf(rs, upToFirstError(rs)))

\* Inode.IterDirents(cb), with a callback that collects the entries
IterDirents(img, sb, ino) ==
    IF ~inoIsDir(ino) THEN [err |-> "ErrInvalid", entries |-> <<>>]
    ELSE iterBlocks(img, sb, ino)

\* Inode.Readlink()
readlinkAt(img, off, size) ==
    Bind(bytesAt(img, off, size), LAMBDA t :
        IF ~t.ok THEN [err |-> "EOF", target |-> <<>>]
        ELSE [err |-> "", target |-> t.data])
Readlink(img, sb, ino) ==
    IF ~inoIsSymlink(ino) THEN [err |-> "ErrInvalid", target |-> <<>>]
    ELSE IF ino.idataOff # 0
    THEN IF ino.blocks > 1
         THEN [err |-> "inline data cross block boundary", target |-> <<>>]
         ELSE readlinkAt(img, ino.idataOff, ino.size)
    ELSE readlinkAt(img, ino.dataOff, Min(ino.size, sbBlockSize(sb) - 1))

----------------------------------------------------------------------------
(* The reader: paths.  A path handed to the Filesystem is the sequence of  *)
(* its components (what splitPath returns for it); a link target is a byte *)
(* string, split and cleaned as the code does.                             *)

\* strings.Split(path, "/"): the pieces between the slashes from byte i on,
\* with cur the piece being read
RECURSIVE splitSlash(_, _, _)
splitSlash(b, i, cur) ==
    IF i > Len(b) THEN <<cur>>
    ELSE IF b[i] = Slash THEN <<cur>> \o splitSlash(b, i + 1, <<>>)
    ELSE splitSlash(b, i + 1, Append(cur, b[i]))

\* splitPath(path): the non-empty pieces
splitPath(b) == SelectSeq(splitSlash(b, 1, <<>>), LAMBDA c : c # <<>>)

\* filepath.Clean on the pieces of a path: "." and empty pieces are dropped,
\* ".." removes the piece before it, is dropped at the root of a rooted path
\* and is kept at the start of a relative one
RECURSIVE cleanLoop(_, _, _, _)
cleanLoop(pieces, i, rooted, out) ==
    IF i > Len(pieces) THEN out
    ELSE IF pieces[i] = <<>> \/ pieces[i] = Dot
    THEN cleanLoop(pieces, i + 1, rooted, out)
    ELSE IF pieces[i] = DotDot
    THEN IF Len(out) > 0 /\ out[Len(out)] # DotDot
         THEN cleanLoop(pieces, i + 1, rooted, SubSeq(out, 1, Len(out) - 1))
         ELSE IF rooted THEN cleanLoop(pieces, i + 1, rooted, out)
         ELSE cleanLoop(pieces, i + 1, rooted, Append(out, DotDot))
    ELSE cleanLoop(pieces, i + 1, rooted, Append(out, pieces[i]))

\* filepath.Clean(link) as the components of the cleaned path
cleanPath(b, rooted) == cleanLoop(splitSlash(b, 1, <<>>), 1, rooted, <<>>)

\* filepath.Join(strings.Join(prefix, "/"), link) for a cleaned relative
\* link, as splitPath sees it: the cleaned empty path is "."
joinPath(prefix, link) ==
    Bind(cleanLoop(prefix \o link, 1, FALSE, <<>>), LAMBDA joined :
        IF joined = <<>> THEN <<Dot>> ELSE joined)

\* the components resolve walks for a link met after the components prefix:
\* the target cleaned, from the root when it is absolute, else joined to the
\* prefix
linkComponents(prefix, target) ==
    IF Len(target) > 0 /\ target[1] = Slash THEN cleanPath(target, TRUE)
    ELSE joinPath(prefix, cleanPath(target, FALSE))

----------------------------------------------------------------------------
(* The reader: the Filesystem.  An outcome has st = "ok", "err" (an error  *)
(* value is returned), "panic" (the call panics), "diverges" (resolve is   *)
(* called with the name of a call of resolve that has not returned: the    *)
(* call makes the same calls again, without end) or "overflow" (more than  *)
(* MaxResolveDepth calls of resolve are open, which no image of the model  *)
(* needs).                                                                 *)

MaxResolveDepth == 6

rootEntry(sb) == [name |-> <<>>, nid |-> sb.RootNid, typ |-> FT_DIR]

\* dirEntry.getInode(): an error of Image.Inode is raised as a panic
getInode(img, sb, de) ==
    Bind(imageInode(img, sb, de.nid), LAMBDA r :
        IF r.err # "" THEN [st |-> "panic", err |-> r.err, ino |-> NoInode]
        ELSE [st |-> "ok", err |-> "", ino |-> r.ino])

\* dirEntry.lookup(name) once the inode of the directory is read
lookupIn(img, sb, de, name, i) ==
    IF i.st # "ok" THEN [st |-> i.st, err |-> i.err, de |-> de]
    ELSE Bind(Lookup(img, sb, i.ino, name), LAMBDA d :
             IF d.err # "" THEN [st |-> "err", err |-> d.err, de |-> de]
             ELSE [st |-> "ok", err |-> "",
                   de |-> [name |-> name, nid |-> d.d.Nid, typ |-> d.d.FileType]])

\* dirEntry.lookup(name)
deLookup(img, sb, de, name) == lookupIn(img, sb, de, name, getInode(img, sb, de))

\* Filesystem.resolve(name, noResolveLastSymlink) with open the names of
\* the calls of resolve that have not returned, its loop from component i
\* on with de the entry reached so far, and one iteration of the loop with
\* the child looked up and its inode read
RECURSIVE resolve(_, _, _, _, _)
RECURSIVE resolveLoop(_, _, _, _, _, _, _)
RECURSIVE resolveChild(_, _, _, _, _, _, _, _, _)
RECURSIVE resolveLink(_, _, _, _, _, _, _, _)
resolveLink(img, sb, components, noLast, open, i, de, link) ==
    IF link.err # "" THEN [st |-> "err", err |-> link.err, de |-> de]
    ELSE Bind(resolve(img, sb,
                      linkComponents(SubSeq(components, 1, i - 1), link.target),
                      noLast, open \cup {components}),
              LAMBDA target :
                  IF target.st # "ok" THEN target
                  ELSE resolveLoop(img, sb, components, noLast, open, i + 1,
                                   target.de))
resolveChild(img, sb, components, noLast, open, i, de, child, ino) ==
    IF ino.st # "ok" THEN [st |-> ino.st, err |-> ino.err, de |-> de]
    ELSE IF inoIsSymlink(ino.ino) /\ ~(noLast /\ i = Len(components))
    THEN resolveLink(img, sb, components, noLast, open, i, de,
                     Readlink(img, sb, ino.ino))
    ELSE resolveLoop(img, sb, components, noLast, open, i + 1, child)
resolveLoop(img, sb, components, noLast, open, i, de) ==
    IF i > Len(components) THEN [st |-> "ok", err |-> "", de |-> de]
    ELSE Bind(deLookup(img, sb, de, components[i]), LAMBDA child :
             IF child.st # "ok" THEN child
             ELSE resolveChild(img, sb, components, noLast, open, i, de,
                               child.de, getInode(img, sb, child.de)))
resolve(img, sb, components, noLast, open) ==
    IF components \in open
    THEN [st |-> "diverges", err |-> "", de |-> rootEntry(sb)]
    ELSE IF Cardinality(open) >= MaxResolveDepth
    THEN [st |-> "overflow", err |-> "", de |-> rootEntry(sb)]
    ELSE resolveLoop(img, sb, components, noLast, open, 1, rootEntry(sb))

\* Filesystem.Stat(name), and Filesystem.StatLink(name) with noLast
statOf(r, i) ==
    IF i.st # "ok" THEN [st |-> i.st, err |-> i.err, name |-> <<>>, ino |-> NoInode]
    ELSE [st |-> "ok", err |-> "", name |-> r.de.name, ino |-> i.ino]
statResolved(img, sb, r) ==
    IF r.st # "ok" THEN [st |-> r.st, err |-> r.err, name |-> <<>>, ino |-> NoInode]
    ELSE statOf(r, getInode(img, sb, r.de))
fsStat(img, sb, name) == statResolved(img, sb, resolve(img, sb, name, FALSE, {}))
fsStatLink(img, sb, name) == statResolved(img, sb, resolve(img, sb, name, TRUE, {}))

\* Filesystem.Open(name), then file.Stat(), which is de.Info()
fileStat(img, sb, r) == statResolved(img, sb, r)
fsOpenStat(img, sb, name) == fileStat(img, sb, resolve(img, sb, name, FALSE, {}))

\* Filesystem.ReadLink(name)
readLinkOf(i, t) ==
    IF t.err # "" THEN [st |-> "err", err |-> t.err, target |-> <<>>]
    ELSE [st |-> "ok", err |-> "", target |-> t.target]
readLinkInode(img, sb, i) ==
    IF i.st # "ok" THEN [st |-> i.st, err |-> i.err, target |-> <<>>]
    ELSE readLinkOf(i, Readlink(img, sb, i.ino))
readLinkResolved(img, sb, r) ==
    IF r.st # "ok" THEN [st |-> r.st, err |-> r.err, target |-> <<>>]
    ELSE readLinkInode(img, sb, getInode(img, sb, r.de))
fsReadLink(img, sb, name) ==
    readLinkResolved(img, sb, resolve(img, sb, name, TRUE, {}))

\* Filesystem.ReadDir(name): the entries but "." and ".."
readDirOf(it) ==
    IF it.err # "" THEN [st |-> "err", err |-> it.err, entries |-> <<>>]
    ELSE [st |-> "ok", err |-> "",
          entries |-> SelectSeq(it.entries,
                                LAMBDA e : e.name # Dot /\ e.name # DotDot)]
readDirInode(img, sb, i) ==
    IF i.st # "ok" THEN [st |-> i.st, err |-> i.err, entries |-> <<>>]
    ELSE readDirOf(IterDirents(img, sb, i.ino))
readDirResolved(img, sb, r) ==
    IF r.st # "ok" THEN [st |-> r.st, err |-> r.err, entries |-> <<>>]
    ELSE IF r.de.typ # FT_DIR
    THEN [st |-> "err", err |-> "not a directory", entries |-> <<>>]
    ELSE readDirInode(img, sb, getInode(img, sb, r.de))
fsReadDir(img, sb, name) ==
    readDirResolved(img, sb, resolve(img, sb, name, FALSE, {}))

\* the inline tail alone, without the blocks before it
inlineTailOnly(ino, idataSize) ==
    <<[off |-> ino.idataOff, limit |-> ino.idataOff + idataSize]>>

\* Inode.Data(): the sections of the image the reader returned reads, in
\* order (io.NewSectionReader, io.MultiReader)
inlineSections(ino, idataSize) ==
    (IF ino.size > idataSize
     THEN <<[off |-> ino.dataOff, limit |-> ino.dataOff + ino.size - idataSize]>>
     ELSE <<>>)
    \o <<[off |-> ino.idataOff, limit |-> ino.idataOff + idataSize]>>
inoData(sb, ino) ==
    IF inodeDataLayout(ino.format) = InodeDataLayoutFlatPlain
    THEN <<[off |-> ino.dataOff, limit |-> ino.dataOff + ino.size]>>
    ELSE inlineSections(ino, ino.size % sbBlockSize(sb))

\* (*io.SectionReader).Read(p) with len(p) = k on the section sec: the bytes
\* read, the section after the read, and whether io.EOF is returned; n is
\* what ReadAt finds of the want bytes asked for
sectionReadN(img, sec, want, n) ==
    [data |-> [i \in 1..n |-> ByteAt(img, sec.off + i - 1)],
     sec |-> [sec EXCEPT !.off = sec.off + n],
     eof |-> n < want]
sectionRead(img, sec, k) ==
    IF sec.off >= sec.limit
    THEN [data |-> <<>>, sec |-> sec, eof |-> TRUE]
    ELSE sectionReadN(img, sec, Min(k, sec.limit - sec.off),
                      Max(0, Min(Min(k, sec.limit - sec.off), img.len - sec.off)))

\* the Read(p) of the reader that Inode.Data returned, with len(p) = k, on
\* the sections secs still to read.  A FlatPlain inode has the section
\* reader itself, a FlatInline inode an io.MultiReader over its sections
RECURSIVE multiRead(_, _, _)
RECURSIVE multiReadOf(_, _, _, _, _)
multiReadOf(img, secs, k, r, rest) ==
    IF Len(r.data) > 0 \/ ~r.eof
    THEN [data |-> r.data, secs |-> rest, eof |-> r.eof /\ Len(rest) = 0]
    ELSE multiRead(img, rest, k)
multiRead(img, secs, k) ==
    IF Len(secs) = 0 THEN [data |-> <<>>, secs |-> secs, eof |-> TRUE]
    ELSE Bind(sectionRead(img, secs[1], k), LAMBDA r :
             multiReadOf(img, secs, k, r,
                         IF r.eof THEN Tail(secs) ELSE <<r.sec>> \o Tail(secs)))
readerRead(img, plain, secs, k) ==
    IF plain
    THEN Bind(sectionRead(img, secs[1], k), LAMBDA r :
             [data |-> r.data, secs |-> <<r.sec>>, eof |-> r.eof])
    ELSE multiRead(img, secs, k)

\* io.Copy from the reader: Read with a 32 KiB buffer until io.EOF
RECURSIVE readAll(_, _, _)
readAll(img, plain, secs) ==
    Bind(readerRead(img, plain, secs, 32768), LAMBDA r :
        IF r.eof THEN r.data ELSE r.data \o readAll(img, plain, r.secs))

\* Filesystem.Open(name), then file.Read to io.EOF
readFileInode(img, sb, i) ==
    IF i.st # "ok" THEN [st |-> i.st, err |-> i.err, data |-> <<>>]
    ELSE [st |-> "ok", err |-> "",
          data |-> readAll(img,
                           inodeDataLayout(i.ino.format) = InodeDataLayoutFlatPlain,
                           inoData(sb, i.ino))]
readFileResolved(img, sb, r) ==
    IF r.st # "ok" THEN [st |-> r.st, err |-> r.err, data |-> <<>>]
    ELSE readFileInode(img, sb, getInode(img, sb, r.de))
fsReadFile(img, sb, name) ==
    readFileResolved(img, sb, resolve(img, sb, name, FALSE, {}))

\* Inode.Mode(): the permission bits and the type of the file; ModeSetuid,
\* ModeSetgid and ModeSticky are never set
inoMode(ino) ==
    [type |-> CASE statFormat(ino.mode) = S_IFDIR -> "dir"
                [] statFormat(ino.mode) = S_IFCHR -> "chr"
                [] statFormat(ino.mode) = S_IFBLK -> "blk"
                [] statFormat(ino.mode) = S_IFIFO -> "fifo"
                [] statFormat(ino.mode) = S_IFSOCK -> "sock"
                [] statFormat(ino.mode) = S_IFLNK -> "lnk"
                [] OTHER -> "reg",
     perm |-> ino.mode % 512,
     setuid |-> FALSE, setgid |-> FALSE, sticky |-> FALSE]

\* The root dirEntry of the Filesystem is the one dirEntry that outlives a
\* call: its readInodeOnce and its inode.  done says that Do has run, set
\* that the function passed to Do stored the inode (it does not when
\* Image.Inode fails and the function panics).
\* the root entry of a Filesystem: whether readInodeOnce is done, whether
\* de.inode is set and to what, and how often Image.Inode was run for it
FreshRoot == [done |-> FALSE, set |-> FALSE, inode |-> NoInode, decodes |-> 0]

\* readInodeOnce.Do(...) of the root entry: the first call runs Image.Inode
\* and stores the inode; sync.Once counts a call that panicked as done
rootOnce(img, sb, root) ==
    IF root.done THEN root
    ELSE Bind(imageInode(img, sb, sb.RootNid), LAMBDA r :
             [done |-> TRUE, set |-> r.err = "", inode |-> r.ino,
              decodes |-> root.decodes + 1])

\* the outcome of a call of the Filesystem, all of which read the inode of
\* the root entry first, given the outcome alone of the call on a
\* Filesystem that has not read it yet: once Do is done and the inode is not
\* set, return *de.inode dereferences a nil pointer
NilDereference == "nil pointer dereference"
onRoot(root, alone) ==
    IF root.done /\ ~root.set
    THEN [alone EXCEPT !.st = "panic", !.err = NilDereference]
    ELSE alone

\* what a walk records of a file: its path, how the calls on it ended, and
\* its type, permission bits, size, contents and link target
walkRecord(path, st, mode, size, data, target) ==
    [path |-> path, st |-> st, type |-> mode.type, perm |-> mode.perm,
     size |-> size, data |-> data, target |-> target]
failedRecord(path, st) ==
    walkRecord(path, st, [type |-> "", perm |-> 0], 0, <<>>, <<>>)

\* the callback of the walk on the entry d at path, whose inode is i:
\* d.Info() for the mode and the size, Filesystem.Open(path) and reads to
\* io.EOF for a regular file, Filesystem.ReadLink(path) for a symlink
fileRecord(path, i, f) ==
    IF f.st # "ok" THEN failedRecord(path, f.st)
    ELSE walkRecord(path, "ok", inoMode(i.ino), i.ino.size, f.data, <<>>)
linkRecord(path, i, l) ==
    IF l.st # "ok" THEN failedRecord(path, l.st)
    ELSE walkRecord(path, "ok", inoMode(i.ino), i.ino.size, <<>>, l.target)
visit(img, sb, path, i) ==
    IF i.st # "ok" THEN failedRecord(path, i.st)
    ELSE IF inoIsRegular(i.ino) THEN fileRecord(path, i, fsReadFile(img, sb, path))
    ELSE IF inoIsSymlink(i.ino) THEN linkRecord(path, i, fsReadLink(img, sb, path))
    ELSE walkRecord(path, "ok", inoMode(i.ino), 0, <<>>, <<>>)

\* fs.WalkDir: walkDir(path, d) calls the callback on d and, when d is a
\* directory, Filesystem.ReadDir(path) and walkDir on each entry; the root
\* is read as "." and the path of an entry of the root is its name
RECURSIVE walkDir(_, _, _, _)
walkEntries(img, sb, path, rd) ==
    IF rd.st # "ok" THEN {failedRecord(path, rd.st)}
    ELSE UNION {walkDir(img, sb, Append(path, rd.entries[k].name), rd.entries[k]) :
                    k \in 1..Len(rd.entries)}
walkDir(img, sb, path, d) ==
    {visit(img, sb, path, getInode(img, sb, d))}
    \cup (IF d.typ = FT_DIR
          THEN walkEntries(img, sb, path,
                           fsReadDir(img, sb, IF path = <<>> THEN <<Dot>> ELSE path))
          ELSE {})
walkRoot(img, sb, r) ==
    IF r.st # "ok" THEN {failedRecord(<<>>, r.st)}
    ELSE walkDir(img, sb, <<>>, [r.de EXCEPT !.typ = FT_DIR])

\* fs.WalkDir(fsys, ".", fn) on the opened image: the records of the walk
walkImage(img, sb) == walkRoot(img, sb, resolve(img, sb, <<Dot>>, FALSE, {}))

\* the walk of the source tree
srcRecord(fsys, path) ==
    Bind(fsys.nodes[path], LAMBDA node :
        walkRecord(path, "ok", [type |-> node.mode.type, perm |-> node.mode.perm],
                   IF node.mode.type = "dir" THEN 0 ELSE Len(node.data),
                   IF node.mode.type = "reg" THEN node.data ELSE <<>>,
                   IF node.mode.type = "lnk" THEN node.data ELSE <<>>))
srcTree(fsys) == {srcRecord(fsys, path) : path \in DOMAIN fsys.nodes}

----------------------------------------------------------------------------
(* The writer: the write loops and the superblock.                         *)

\* one iteration of writeMetadata's loop: the inode record at off, then the
\* data of an inlined inode right after it
writeInode(fsys, ino, img, path, off) ==
    Bind(WriteAt(img, off, encodeInode(ino[path])), LAMBDA withInode :
        IF ~isInlined(ino[path]) THEN [img |-> withInode, err |-> ""]
        ELSE Bind(dataForInode(fsys, ino, path), LAMBDA d :
                 IF d.err # "" THEN [img |-> withInode, err |-> d.err]
                 ELSE [img |-> WriteAt(withInode,
                                       off + inodeRecordSize(ino[path]), d.data),
                       err |-> ""]))
writeMetadataStep(fsys, ino, img, path) ==
    writeInode(fsys, ino, img, path, inodeOffset(ino[path].Ino))

\* one iteration of writeData's loop: the data of an inode that is not
\* inlined, at its raw block address
writeDataStep(fsys, ino, img, path) ==
    IF isInlined(ino[path]) THEN [img |-> img, err |-> ""]
    ELSE Bind(dataForInode(fsys, ino, path), LAMBDA d :
             IF d.err # "" THEN [img |-> img, err |-> d.err]
             ELSE [img |-> WriteAt(img, ino[path].RawBlockAddr * BlockSize, d.data),
                   err |-> ""])

\* a writer.write that ends without the superblock
writeNoSuperBlock(img, nInodes, meta, data) == img

\* the end of writer.write: the superblock with its checksum
writeSuperBlock(img, nInodes, meta, data) ==
    Bind(newSuperBlock(nInodes, meta, data, MetaBlockAddr), LAMBDA sb :
        WriteAt(img, SuperBlockOffset,
                encodeSuperBlock([sb EXCEPT !.Checksum = sbChecksum(sb)])))

\* the length the destination is truncated to: int64(sb.Blocks) * BlockSize
truncatedLen(meta, data) == (1 + (meta + data) \div BlockSize) * BlockSize

----------------------------------------------------------------------------
(* Create, step by step.                                                   *)

\* w.populateInodes()
PopulateInodes ==
    /\ pc = "populate"
    /\ Bind(populateInodes(src), LAMBDA r :
           /\ inodes' = r.inodes
           /\ inodeOrder' = r.order)
    /\ pc' = "firstPass"
    /\ UNCHANGED <<src, metaSize, dataSize, cursor, dst, err, fs, call>>

\* w.firstPass()
FirstPass ==
    /\ pc = "firstPass"
    /\ Bind(firstPass(src, inodeOrder, inodes), LAMBDA r :
           /\ inodes' = r.inodes
           /\ metaSize' = r.metaSize
           /\ dataSize' = r.dataSize
           /\ err' = r.err
           /\ pc' = IF r.err = "" THEN "writeMetadata" ELSE "failed")
    /\ cursor' = 1
    /\ UNCHANGED <<src, inodeOrder, dst, fs, call>>

\* w.writeMetadata(metaBlockAddr), one inode at a time
WriteMetadata ==
    /\ pc = "writeMetadata"
    /\ cursor <= Len(inodeOrder)
    /\ Bind(writeMetadataStep(src, inodes, dst, inodeOrder[cursor]), LAMBDA r :
           /\ dst' = r.img
           /\ err' = r.err
           /\ cursor' = IF r.err # "" THEN cursor
                        ELSE IF cursor = Len(inodeOrder) THEN 1 ELSE cursor + 1
           /\ pc' = IF r.err # "" THEN "failed"
                    ELSE IF cursor = Len(inodeOrder) THEN "writeData" ELSE pc)
    /\ UNCHANGED <<src, inodes, inodeOrder, metaSize, dataSize, fs, call>>

\* w.writeData(), one inode at a time
WriteData ==
    /\ pc = "writeData"
    /\ cursor <= Len(inodeOrder)
    /\ Bind(writeDataStep(src, inodes, dst, inodeOrder[cursor]), LAMBDA r :
           /\ dst' = r.img
           /\ err' = r.err
           /\ cursor' = IF r.err # "" THEN cursor ELSE cursor + 1
           /\ pc' = IF r.err # "" THEN "failed"
                    ELSE IF cursor = Len(inodeOrder) THEN "superblock" ELSE pc)
    /\ UNCHANGED <<src, inodes, inodeOrder, metaSize, dataSize, fs, call>>

\* the superblock is computed and written at SuperBlockOffset
WriteSuperBlock ==
    /\ pc = "superblock"
    /\ dst' = writeSuperBlock(dst, Cardinality(DOMAIN inodes), metaSize, dataSize)
    /\ pc' = "truncate"
    /\ UNCHANGED <<src, inodes, inodeOrder, metaSize, dataSize, cursor, err, fs, call>>

\* the destination is truncated to the image size when it is an *os.File,
\* and Create returns nil
TruncateDst ==
    /\ pc = "truncate"
    /\ dst' = IF src.dstIsFile THEN Truncate(dst, truncatedLen(metaSize, dataSize))
              ELSE dst
    /\ pc' = "done"
    /\ UNCHANGED <<src, inodes, inodeOrder, metaSize, dataSize, cursor, err, fs, call>>

\* Create as a whole: the image it leaves and the error it returns
RECURSIVE writeLoop(_, _, _, _, _, _)
writeLoop(fsys, ino, order, i, st, data) ==
    IF i > Len(order) \/ st.err # "" THEN st
    ELSE writeLoop(fsys, ino, order, i + 1,
                   IF data THEN writeDataStep(fsys, ino, st.img, order[i])
                   ELSE writeMetadataStep(fsys, ino, st.img, order[i]),
                   data)
writeAll(fsys, order, f) ==
    Bind(writeLoop(fsys, f.inodes, order, 1,
                   writeLoop(fsys, f.inodes, order, 1,
                             [img |-> EmptyImage, err |-> ""], FALSE),
                   TRUE),
         LAMBDA d :
             IF d.err # "" THEN d
             ELSE [img |-> IF fsys.dstIsFile
                           THEN Truncate(writeSuperBlock(d.img,
                                             Cardinality(DOMAIN f.inodes),
                                             f.metaSize, f.dataSize),
                                         truncatedLen(f.metaSize, f.dataSize))
                           ELSE writeSuperBlock(d.img, Cardinality(DOMAIN f.inodes),
                                                f.metaSize, f.dataSize),
                   err |-> ""])

----------------------------------------------------------------------------
(* The source filesystems of the model.                                    *)

MaxSmallSize == 1   \* regular files of 0..MaxSmallSize bytes
MaxOverSize == 1    \* and of MaxInlineDataSize..MaxInlineDataSize+MaxOverSize
BigDirEntries == 17 \* the entries of the directory that needs two blocks

mkMode(type, perm) ==
    [type |-> type, perm |-> perm, setuid |-> FALSE, setgid |-> FALSE, sticky |-> FALSE]
mkNode(type, perm, data, mtime) ==
    [mode |-> mkMode(type, perm), data |-> data, mtime |-> mtime, uid |-> 0, gid |-> 0]

\* n bytes of contents, none of them zero
Content(n, seed) == [i \in 1..n |-> 1 + ((seed + i) % 250)]

NameA == <<97>>
NameB == <<98>>
NameD == <<100>>
NameF == <<102>>
NameL == <<108>>
NameK == <<107>>
NameM == <<109>>
NameE == <<101>>
NameDash == <<45>>
\* a name of MaxNameLen bytes
LongName(k) == [i \in 1..MaxNameLen |-> IF i = 1 THEN 97 + k ELSE 120]

FileSizes == (0..MaxSmallSize) \cup (MaxInlineDataSize..(MaxInlineDataSize + MaxOverSize))

\* a tree: the root, a regular file "a" of sizeA bytes, a directory "d" with
\* a regular file "f" of sizeF bytes, a symlink "l" to "a", a regular file
\* "-"; a size of -1 leaves the entry out.  mtime # 0 asks for extended inodes
mkTree(sizeA, sizeF, hasL, hasDash, mtime) ==
    [nodes |->
        (<<>> :> mkNode("dir", 493, <<>>, mtime))
        @@ (IF sizeA >= 0 THEN <<NameA>> :> mkNode("reg", 420, Content(sizeA, 1), mtime)
            ELSE <<>> :> mkNode("dir", 493, <<>>, mtime))
        @@ (IF sizeF >= 0
            THEN (<<NameD>> :> mkNode("dir", 448, <<>>, mtime))
                 @@ (<<NameD, NameF>> :> mkNode("reg", 384, Content(sizeF, 7), mtime))
            ELSE <<>> :> mkNode("dir", 493, <<>>, mtime))
        @@ (IF hasL THEN <<NameL>> :> mkNode("lnk", 511, NameA, mtime)
            ELSE <<>> :> mkNode("dir", 493, <<>>, mtime))
        @@ (IF hasDash THEN <<NameDash>> :> mkNode("reg", 420, Content(3, 3), mtime)
            ELSE <<>> :> mkNode("dir", 493, <<>>, mtime)),
     readlink |-> TRUE,
     dstIsFile |-> TRUE]

\* a tree whose directory "d" has BigDirEntries entries with names of
\* MaxNameLen bytes, after a regular file "a" of sizeA bytes
mkBigTree(sizeA) ==
    [nodes |->
        (<<>> :> mkNode("dir", 493, <<>>, 0))
        @@ (<<NameA>> :> mkNode("reg", 420, Content(sizeA, 1), 0))
        @@ (<<NameD>> :> mkNode("dir", 448, <<>>, 0))
        @@ [p \in {<<NameD, LongName(k)>> : k \in 1..BigDirEntries} |->
               mkNode("reg", 384, Content(1, 5), 0)],
     readlink |-> TRUE,
     dstIsFile |-> TRUE]

NameS == <<115>>

\* the types of the nodes that are no regular file, directory or symlink;
\* a mode has the bits of its type: "blk" is fs.ModeDevice, "chr" is
\* fs.ModeCharDevice alone (what tarfs reports for a character device),
\* "devchr" is fs.ModeDevice|fs.ModeCharDevice (what os.Lstat and
\* tar.Header.FileInfo report for one), "fifo" is fs.ModeNamedPipe, "sock"
\* is fs.ModeSocket.  Open of a device succeeds and reads no byte.
SpecialTypes == {"blk", "chr", "devchr", "fifo", "sock"}

\* a tree with a regular file "a" and a node "s" of a special type
mkSpecialTree(type) ==
    [nodes |->
        (<<>> :> mkNode("dir", 493, <<>>, 0))
        @@ (<<NameA>> :> mkNode("reg", 420, Content(1, 1), 0))
        @@ (<<NameS>> :> mkNode(type, 420, <<>>, 0)),
     readlink |-> TRUE,
     dstIsFile |-> TRUE]

\* a tree with a symlink, on a source filesystem without ReadLink
NoReadLinkTree ==
    [nodes |->
        (<<>> :> mkNode("dir", 493, <<>>, 0))
        @@ (<<NameA>> :> mkNode("reg", 420, Content(1, 1), 0))
        @@ (<<NameL>> :> mkNode("lnk", 511, NameA, 0)),
     readlink |-> FALSE,
     dstIsFile |-> TRUE]

SourceTrees ==
    {mkTree(sizeA, sizeF, hasL, hasDash, mtime) :
        sizeA \in {-1} \cup FileSizes,
        sizeF \in {-1, 2, SuperBlockOffset + SuperBlockSize + 2},
        hasL \in BOOLEAN, hasDash \in BOOLEAN, mtime \in {0, 1}}
    \cup {mkBigTree(sizeA) : sizeA \in {1, MaxInlineDataSize + 1}}
    \cup {mkSpecialTree(type) : type \in SpecialTypes}
    \cup {NoReadLinkTree}

----------------------------------------------------------------------------
(* The reader on the image Create produced.                                *)

NoFs == [open |-> FALSE, sb |-> NoSuperBlock, root |-> FreshRoot]
NoCall == [op |-> "none"]

\* erofs.Open(dst)
OpenFs ==
    /\ pc = "done"
    /\ Bind(initSuperBlock(dst), LAMBDA r :
           /\ fs' = IF r.err = "" THEN [open |-> TRUE, sb |-> r.sb, root |-> FreshRoot]
                    ELSE NoFs
           /\ pc' = IF r.err = "" THEN "open" ELSE "openFailed")
    /\ UNCHANGED <<src, inodes, inodeOrder, metaSize, dataSize, cursor, dst, err, call>>

\* fs.WalkDir over the opened Filesystem
CallWalk ==
    /\ pc = "open"
    /\ call' = [op |-> "Walk", res |-> IF fs.root.done /\ ~fs.root.set
                        THEN {failedRecord(<<>>, "panic")}
                        ELSE walkImage(dst, fs.sb)]
    /\ pc' = "called"
    /\ fs' = [fs EXCEPT !.root = rootOnce(dst, fs.sb, fs.root)]
    /\ UNCHANGED <<src, inodes, inodeOrder, metaSize, dataSize, cursor, dst, err>>

\* the names looked up in the directories of the image
ProbeNames(fsys) ==
    {p[Len(p)] : p \in DOMAIN fsys.nodes \ {<<>>}} \cup {Dot, DotDot, NameB}

\* the paths of the directories of the source
srcDirs(fsys) == {p \in DOMAIN fsys.nodes : fsys.nodes[p].mode.type = "dir"}

\* Inode.Lookup(name) on the inode of a directory of the image
CallLookup ==
    /\ pc = "open"
    /\ \E dir \in srcDirs(src) :
         Bind(onRoot(fs.root, fsStat(dst, fs.sb, dir)), LAMBDA i :
             /\ i.st = "ok"
             /\ \E name \in ProbeNames(src) :
                    call' = [op |-> "Lookup", dir |-> dir, name |-> name,
                             res |-> Lookup(dst, fs.sb, i.ino, name)])
    /\ pc' = "called"
    /\ fs' = [fs EXCEPT !.root = rootOnce(dst, fs.sb, fs.root)]
    /\ UNCHANGED <<src, inodes, inodeOrder, metaSize, dataSize, cursor, dst, err>>

\* Filesystem.Open(path) and reading the file to the end
CallReadFile ==
    /\ pc = "open"
    /\ \E path \in {p \in DOMAIN src.nodes : src.nodes[p].mode.type = "reg"} :
         call' = [op |-> "ReadFile", path |-> path, 
                  res |-> onRoot(fs.root, fsReadFile(dst, fs.sb, path))]
    /\ pc' = "called"
    /\ fs' = [fs EXCEPT !.root = rootOnce(dst, fs.sb, fs.root)]
    /\ UNCHANGED <<src, inodes, inodeOrder, metaSize, dataSize, cursor, dst, err>>

\* the paths the calls are made with
ResolvePaths(fsys) ==
    DOMAIN fsys.nodes \cup {<<NameL, NameF>>, <<NameK, NameF>>, <<NameB>>}
        \cup {<<NameK, NameM>> : p \in DOMAIN fsys.nodes \cap {<<NameD, NameE, NameM>>}}

\* Filesystem.ReadDir(path)
CallReadDir ==
    /\ pc = "open"
    /\ \E path \in ResolvePaths(src) :
         call' = [op |-> "ReadDir", path |-> path,
                  res |-> onRoot(fs.root, fsReadDir(dst, fs.sb, path))]
    /\ pc' = "called"
    /\ fs' = [fs EXCEPT !.root = rootOnce(dst, fs.sb, fs.root)]
    /\ UNCHANGED <<src, inodes, inodeOrder, metaSize, dataSize, cursor, dst, err>>

\* the caller has the outcome of the call and may make another call
Return ==
    /\ pc = "called"
    /\ pc' = "open"
    /\ call' = NoCall
    /\ UNCHANGED <<src, inodes, inodeOrder, metaSize, dataSize, cursor, dst, err, fs>>

----------------------------------------------------------------------------
(* Create on an empty destination, then the reader on its image.           *)

Init ==
    /\ src \in SourceTrees
    /\ pc = "populate"
    /\ inodes = <<>>
    /\ inodeOrder = <<>>
    /\ metaSize = 0
    /\ dataSize = 0
    /\ cursor = 1
    /\ dst = EmptyImage
    /\ err = ""
    /\ fs = NoFs
    /\ call = NoCall

Next ==
    \/ PopulateInodes
    \/ FirstPass
    \/ WriteMetadata
    \/ WriteData
    \/ WriteSuperBlock
    \/ TruncateDst
    \/ OpenFs
    \/ CallWalk
    \/ CallLookup
    \/ CallReadFile
    \/ CallReadDir
    \/ Return

Spec == Init /\ [][Next]_vars

----------------------------------------------------------------------------
(* Images made by hand: a root directory of regular files, in blocks of   *)
(* CraftBlockSize bytes.  The dirents of the root are sorted by name and  *)
(* laid out perBlock to a block; the last block of the directory, and the *)
(* tail of a file, may be inline.                                         *)

CraftBlockSizeBits == BlockSizeBits \div 2
CraftBlockSize == Pow2(CraftBlockSizeBits)
CraftMetaAddr ==
    roundUp(SuperBlockOffset + SuperBlockSize, CraftBlockSize) \div CraftBlockSize

\* the blocks a file may take in the data region
MaxFileBlocks == 2

\* the names of dirents 1..n taken k to a block
craftChunks(n, k) ==
    [j \in 1..((n + k - 1) \div k) |->
        [i \in 1..Min(k, n - (j - 1) * k) |-> (j - 1) * k + i]]

isDotName(name) == name = Dot \/ name = DotDot

\* one block of dirents: the records, then the names
craftBlock(names, chunk) ==
    Concat([i \in 1..Len(chunk) |->
               encodeDirent(
                   [Nid |-> IF isDotName(names[chunk[i]]) THEN 0 ELSE 2 * chunk[i],
                    NameOff |-> Len(chunk) * DirentSize
                                + SumLen([x \in 1..Len(chunk) |-> names[chunk[x]]],
                                         i - 1),
                    FileType |-> IF isDotName(names[chunk[i]])
                                 THEN FT_DIR ELSE FT_REG_FILE])])
    \o Concat([x \in 1..Len(chunk) |-> names[chunk[x]]])

\* the blocks of the root directory, all but the last padded to the block
craftDirBlocks(names, k) ==
    Bind(craftChunks(Len(names), k), LAMBDA chunks :
        [j \in 1..Len(chunks) |->
            Bind(craftBlock(names, chunks[j]), LAMBDA b :
                IF j < Len(chunks) THEN b \o Zeros(CraftBlockSize - Len(b)) ELSE b)])

\* an on-disk compact inode
craftInode(mode, size, inline, addr) ==
    [layout |-> "compact",
     Format |-> setBits(setBits(0, InodeLayoutCompact, 0, 1),
                        IF inline THEN InodeDataLayoutFlatInline
                        ELSE InodeDataLayoutFlatPlain, 1, 3),
     XattrCount |-> 0, Mode |-> mode, Nlink |-> 1, Size |-> size,
     RawBlockAddr |-> addr, Ino |-> 0, UID |-> 0, GID |-> 0,
     Mtime |-> 0, MtimeNsec |-> 0]

\* the size and the layout of the file at dirent i
craftFileSize(d, i) == IF d.names[i] = NameA THEN d.fileSize ELSE 3
craftFileInline(d, i) == IF d.names[i] = NameA THEN d.fileInline ELSE TRUE
craftFileData(d, i) == Content(craftFileSize(d, i), i)

\* the first block of the directory, and of the file at dirent i
craftDirAddr(d) == CraftMetaAddr + Len(d.names) + 1
craftFileAddr(d, i) ==
    craftDirAddr(d) + Len(craftChunks(Len(d.names), d.perBlock))
    + (i - 1) * MaxFileBlocks

\* the image offset of the inode with this nid
craftInodeOff(nid) == CraftMetaAddr * CraftBlockSize + nid * InodeSlotSize

\* the writes that make the image: the superblock, the inode of the root
\* and its blocks, then the inode and the data of every file
craftRootWrites(d, blocks) ==
    <<[off |-> SuperBlockOffset,
       data |-> encodeSuperBlock(
                    [newSuperBlock(Len(d.names), 0, 0, CraftMetaAddr)
                        EXCEPT !.BlockSizeBits = CraftBlockSizeBits])],
      [off |-> craftInodeOff(0),
       data |-> encodeInode(
                    craftInode(S_IFDIR + 493,
                               (Len(blocks) - 1) * CraftBlockSize
                               + Len(blocks[Len(blocks)]),
                               d.dirInline, craftDirAddr(d)))]>>
    \o [j \in 1..Len(blocks) |->
           [off |-> IF j = Len(blocks) /\ d.dirInline
                    THEN craftInodeOff(0) + InodeCompactSize
                    ELSE (craftDirAddr(d) + j - 1) * CraftBlockSize,
            data |-> blocks[j]]]
craftFileWrites(d, i) ==
    IF isDotName(d.names[i]) THEN <<>>
    ELSE Bind(craftFileData(d, i), LAMBDA data :
        <<[off |-> craftInodeOff(2 * i),
           data |-> encodeInode(craftInode(S_IFREG + 420, Len(data),
                                           craftFileInline(d, i),
                                           craftFileAddr(d, i)))],
          IF craftFileInline(d, i)
          THEN [off |-> craftInodeOff(2 * i) + InodeCompactSize,
                data |-> SubSeq(data, Len(data) - (Len(data) % CraftBlockSize) + 1,
                                Len(data))]
          ELSE [off |-> craftFileAddr(d, i) * CraftBlockSize, data |-> data],
          [off |-> craftFileAddr(d, i) * CraftBlockSize,
           data |-> IF craftFileInline(d, i)
                    THEN SubSeq(data, 1, Len(data) - (Len(data) % CraftBlockSize))
                    ELSE <<>>]>>)
craftWrites(d) ==
    craftRootWrites(d, craftDirBlocks(d.names, d.perBlock))
    \o Concat([i \in 1..Len(d.names) |-> craftFileWrites(d, i)])

RECURSIVE applyWrites(_, _, _)
applyWrites(img, ws, i) ==
    IF i > Len(ws) THEN img
    ELSE applyWrites(WriteAt(img, ws[i].off, ws[i].data), ws, i + 1)
craftImage(d) == applyWrites(EmptyImage, craftWrites(d), 1)

\* the lists of names of the root: sorted by their bytes, with "." and ".."
NameAB == <<97, 98>>
NameC == <<99>>
NameLong1 == <<97, 98, 99, 100, 101, 102, 103>>
NameLong2 == <<98, 99, 100, 101, 102, 103>>
CraftNames ==
    {<<Dot, DotDot, NameA>>,
     <<NameDash, Dot, DotDot, NameA, NameAB, NameB, NameC>>,
     <<Dot, DotDot, NameA, NameAB, NameB, NameC, NameD, NameF, NameL>>,
     <<Dot, DotDot, NameLong1, NameLong2, NameC, NameD>>}

MaxPerBlock == 4    \* the dirents of a block of the root
SmallRead == 7      \* the length of the short buffer of Read
CraftFileSizes == {0, 5, CraftBlockSize, CraftBlockSize + 5}

\* whether the size and the layout make an inode the format allows
craftSizeOk(size, inline) ==
    inline => /\ size % CraftBlockSize > 0
              /\ size % CraftBlockSize <= CraftBlockSize - InodeCompactSize

\* whether the description d gives an image the format allows: every block
\* of dirents fits the block, and every inline tail fits after its inode
craftValid(d) ==
    /\ \A j \in 1..Len(craftChunks(Len(d.names), d.perBlock)) :
           Len(craftBlock(d.names, craftChunks(Len(d.names), d.perBlock)[j]))
               <= CraftBlockSize
    /\ craftSizeOk(Len(craftBlock(d.names,
                        craftChunks(Len(d.names), d.perBlock)[
                            Len(craftChunks(Len(d.names), d.perBlock))])),
                   d.dirInline)
    /\ craftSizeOk(d.fileSize, d.fileInline)
    /\ d.fileSize <= MaxFileBlocks * CraftBlockSize

CraftImages ==
    {d \in [names : CraftNames, perBlock : 1..MaxPerBlock, dirInline : BOOLEAN,
             fileSize : CraftFileSizes, fileInline : BOOLEAN] :
        /\ craftValid(d)
        /\ d.fileSize = 5 \/ (Len(d.names) = 3 /\ d.perBlock = MaxPerBlock)}

\* the names looked up in the root
CraftProbes ==
    UNION {{names[i] : i \in 1..Len(names)} : names \in CraftNames}
    \cup {<<>>, <<43>>, <<48>>, <<97, 97>>, <<122>>}

\* the image is on the destination, ready for erofs.Open
InitImage ==
    /\ src \in CraftImages
    /\ pc = "done"
    /\ inodes = <<>>
    /\ inodeOrder = <<>>
    /\ metaSize = 0
    /\ dataSize = 0
    /\ cursor = 1
    /\ dst = craftImage(src)
    /\ err = ""
    /\ fs = NoFs
    /\ call = NoCall

\* Inode.IterDirents on the inode of the root
CallIterRoot ==
    /\ pc = "open"
    /\ Bind(imageInode(dst, fs.sb, fs.sb.RootNid), LAMBDA r :
           /\ r.err = ""
           /\ call' = [op |-> "IterRoot", res |-> IterDirents(dst, fs.sb, r.ino)])
    /\ pc' = "called"
    /\ UNCHANGED <<src, inodes, inodeOrder, metaSize, dataSize, cursor, dst, err, fs>>

\* Inode.Lookup(name) on the inode of the root
CallLookupRoot ==
    /\ pc = "open"
    /\ Bind(imageInode(dst, fs.sb, fs.sb.RootNid), LAMBDA r :
           /\ r.err = ""
           /\ \E name \in CraftProbes :
                  call' = [op |-> "LookupRoot", name |-> name,
                           res |-> Lookup(dst, fs.sb, r.ino, name)])
    /\ pc' = "called"
    /\ UNCHANGED <<src, inodes, inodeOrder, metaSize, dataSize, cursor, dst, err, fs>>

\* Filesystem.Open(name): the handle, with the inode and the reader that
\* its first Read takes from getInode and Inode.Data
openedFile(name, i) ==
    [op |-> "Read", name |-> name, st |-> i.st, ino |-> i.ino,
     plain |-> inodeDataLayout(i.ino.format) = InodeDataLayoutFlatPlain,
     secs |-> IF i.st = "ok" THEN inoData(fs.sb, i.ino) ELSE <<>>,
     got |-> <<>>, reads |-> 0, eof |-> FALSE]
OpenFile ==
    /\ pc = "open"
    /\ \E k \in 1..Len(src.names) :
         /\ ~isDotName(src.names[k])
         /\ Bind(onRoot(fs.root, fsStat(dst, fs.sb, <<src.names[k]>>)), LAMBDA i :
                /\ call' = openedFile(src.names[k], i)
                /\ pc' = IF i.st = "ok" THEN "reading" ELSE "called")
    /\ fs' = [fs EXCEPT !.root = rootOnce(dst, fs.sb, fs.root)]
    /\ UNCHANGED <<src, inodes, inodeOrder, metaSize, dataSize, cursor, dst, err>>

\* file.Read(p) with len(p) = k
ReadFile ==
    /\ pc = "reading"
    /\ \E k \in {SmallRead, CraftBlockSize} :
         Bind(readerRead(dst, call.plain, call.secs, k), LAMBDA r :
             /\ call' = [call EXCEPT !.secs = r.secs, !.got = @ \o r.data,
                                     !.reads = @ + 1, !.eof = r.eof]
             /\ pc' = IF r.eof THEN "called" ELSE "reading")
    /\ UNCHANGED <<src, inodes, inodeOrder, metaSize, dataSize, cursor, dst, err, fs>>

NextImage ==
    \/ OpenFs
    \/ CallIterRoot
    \/ CallLookupRoot
    \/ OpenFile
    \/ ReadFile
    \/ Return

SpecImage == InitImage /\ [][NextImage]_vars

----------------------------------------------------------------------------
(* Path resolution: images Create wrote for trees with symlinks, some of   *)
(* them with one inode damaged afterwards.                                 *)


\* a tree of the given files (name to contents), links (name to target)
\* and a directory "d" with a regular file "f"
linkTree(files, links) ==
    [nodes |->
        (<<>> :> mkNode("dir", 493, <<>>, 0))
        @@ (<<NameD>> :> mkNode("dir", 493, <<>>, 0))
        @@ (<<NameD, NameF>> :> mkNode("reg", 420, Content(2, 7), 0))
        @@ [p \in {<<n>> : n \in DOMAIN files} |->
               mkNode("reg", 420, files[p[1]], 0)]
        @@ [p \in {<<n>> : n \in DOMAIN links} |->
               mkNode("lnk", 511, links[p[1]], 0)],
     readlink |-> TRUE,
     dstIsFile |-> TRUE]

\* the tree of "a", "d" and "d/f" with a directory "d/e", a symlink "d/e/m"
\* to "../f", and a symlink "k" to "d/e"
nestedTree ==
    [nodes |->
        (<<>> :> mkNode("dir", 493, <<>>, 0))
        @@ (<<NameA>> :> mkNode("reg", 420, Content(1, 1), 0))
        @@ (<<NameD>> :> mkNode("dir", 493, <<>>, 0))
        @@ (<<NameD, NameF>> :> mkNode("reg", 420, Content(2, 7), 0))
        @@ (<<NameD, NameE>> :> mkNode("dir", 493, <<>>, 0))
        @@ (<<NameD, NameE, NameM>> :>
               mkNode("lnk", 511, DotDot \o <<Slash>> \o NameF, 0))
        @@ (<<NameK>> :> mkNode("lnk", 511, NameD \o <<Slash>> \o NameE, 0)),
     readlink |-> TRUE,
     dstIsFile |-> TRUE]

\* the tree whose image is also opened with a rewritten superblock
SuperBlockTree == linkTree(NameA :> Content(1, 1), NameL :> NameA)

LinkTrees ==
    {SuperBlockTree,
     linkTree(NameA :> Content(1, 1), NameL :> NameM @@ NameM :> NameA),
     linkTree(NameA :> Content(1, 1), NameL :> NameD),
     linkTree(NameA :> Content(1, 1), NameL :> <<Slash>> \o NameD \o <<Slash>> \o NameF),
     linkTree(NameA :> Content(1, 1), NameL :> NameL),
     linkTree(NameA :> Content(1, 1), NameL :> NameM @@ NameM :> NameL),
     linkTree(NameA :> <<>>, NameL :> NameA),
     linkTree(NameA :> Content(1, 1), NameK :> NameL @@ NameL :> NameD),
     nestedTree}

\* what is done to the image after Create: nothing, or the inode of "a" is
\* given an xattr count, or a data layout that is not supported, or the
\* inode of the root is given an xattr count, or the superblock is
\* rewritten: with another magic, with an incompatible
\* feature, with another checksum, with the checksum feature and the
\* checksum of the superblock, with the checksum feature and another
\* checksum, with the checksum feature and a byte of the first block
\* changed afterwards
InodeDamages == {"xattr", "layout", "root"}
SuperBlockDamages == {"magic", "incompat", "sum", "compat", "compatSum", "compatBlock"}
Damages == {"none"} \cup InodeDamages \cup SuperBlockDamages
damaged(img, off, damage) ==
    CASE damage \in {"xattr", "root"} -> WriteAt(img, off + 2, <<1, 0>>)
      [] damage = "layout" ->
           WriteAt(img, off, <<setBits(ByteAt(img, off), 1, 1, 3)>>)
      [] OTHER -> img
otherWord(w) == <<(w[1] + 1) % 256, w[2], w[3], w[4]>>
withChecksum(sb) == [sb EXCEPT !.Checksum = sbChecksum(sb)]
damagedSuperBlock(sb, damage) ==
    CASE damage = "magic" -> [sb EXCEPT !.Magic = otherWord(sb.Magic)]
      [] damage = "incompat" -> [sb EXCEPT !.FeatureIncompat = 1]
      [] damage = "sum" -> [sb EXCEPT !.Checksum = otherWord(sb.Checksum)]
      [] damage \in {"compat", "compatBlock"} ->
           withChecksum([sb EXCEPT !.FeatureCompat = 1])
      [] damage = "compatSum" ->
           [sb EXCEPT !.FeatureCompat = 1,
                      !.Checksum = otherWord(sbChecksum([sb EXCEPT !.FeatureCompat = 1]))]
      [] OTHER -> sb
superBlockDamaged(img, sb, damage) ==
    IF damage \notin SuperBlockDamages THEN img
    ELSE Bind(WriteAt(img, SuperBlockOffset,
                      encodeSuperBlock(damagedSuperBlock(sb, damage))),
              LAMBDA w : IF damage = "compatBlock"
                         THEN WriteAt(w, BlockSize - 1, <<1>>) ELSE w)
damagedImage(fsys, damage, p, f) ==
    superBlockDamaged(
        damaged(writeAll(fsys, p.order, f).img,
                inodeOffset(f.inodes[IF damage = "root" THEN <<>> ELSE <<NameA>>].Ino),
                damage),
        withChecksum(newSuperBlock(Cardinality(DOMAIN f.inodes), f.metaSize,
                                   f.dataSize, MetaBlockAddr)),
        damage)

\* the image Create wrote for the tree, damaged or not, is on the
\* destination, ready for erofs.Open
InitResolve ==
    /\ \E tree \in LinkTrees, damage \in Damages :
           /\ damage \in SuperBlockDamages => tree = SuperBlockTree
           /\ src = [nodes |-> tree.nodes, readlink |-> tree.readlink,
                     dstIsFile |-> tree.dstIsFile, damage |-> damage]
           /\ Bind(populateInodes(tree), LAMBDA p :
                  /\ inodeOrder = p.order
                  /\ Bind(firstPass(tree, p.order, p.inodes), LAMBDA f :
                         /\ inodes = f.inodes
                         /\ metaSize = f.metaSize
                         /\ dataSize = f.dataSize
                         /\ dst = damagedImage(tree, damage, p, f)))
    /\ pc = "done"
    /\ cursor = 1
    /\ err = ""
    /\ fs = NoFs
    /\ call = NoCall

\* Filesystem.Stat(path)
CallStat ==
    /\ pc = "open"
    /\ \E path \in ResolvePaths(src) :
         call' = [op |-> "Stat", path |-> path, 
                  res |-> onRoot(fs.root, fsStat(dst, fs.sb, path))]
    /\ pc' = "called"
    /\ fs' = [fs EXCEPT !.root = rootOnce(dst, fs.sb, fs.root)]
    /\ UNCHANGED <<src, inodes, inodeOrder, metaSize, dataSize, cursor, dst, err>>

\* Filesystem.StatLink(path)
CallStatLink ==
    /\ pc = "open"
    /\ \E path \in ResolvePaths(src) :
         call' = [op |-> "StatLink", path |-> path,
                  res |-> onRoot(fs.root, fsStatLink(dst, fs.sb, path))]
    /\ pc' = "called"
    /\ fs' = [fs EXCEPT !.root = rootOnce(dst, fs.sb, fs.root)]
    /\ UNCHANGED <<src, inodes, inodeOrder, metaSize, dataSize, cursor, dst, err>>

\* Filesystem.ReadLink(path)
CallReadLink ==
    /\ pc = "open"
    /\ \E path \in ResolvePaths(src) :
         call' = [op |-> "ReadLink", path |-> path,
                  res |-> onRoot(fs.root, fsReadLink(dst, fs.sb, path))]
    /\ pc' = "called"
    /\ fs' = [fs EXCEPT !.root = rootOnce(dst, fs.sb, fs.root)]
    /\ UNCHANGED <<src, inodes, inodeOrder, metaSize, dataSize, cursor, dst, err>>

\* Filesystem.Open(path) and the Read calls on the handle, to io.EOF
CallOpenRead ==
    /\ pc = "open"
    /\ \E path \in ResolvePaths(src) :
         call' = [op |-> "Open", path |-> path,
                  res |-> onRoot(fs.root, fsReadFile(dst, fs.sb, path))]
    /\ pc' = "called"
    /\ fs' = [fs EXCEPT !.root = rootOnce(dst, fs.sb, fs.root)]
    /\ UNCHANGED <<src, inodes, inodeOrder, metaSize, dataSize, cursor, dst, err>>

\* Filesystem.Open(path) and Stat() on the handle
CallOpenStat ==
    /\ pc = "open"
    /\ \E path \in ResolvePaths(src) :
         call' = [op |-> "OpenStat", path |-> path,
                  res |-> onRoot(fs.root, fsOpenStat(dst, fs.sb, path))]
    /\ pc' = "called"
    /\ fs' = [fs EXCEPT !.root = rootOnce(dst, fs.sb, fs.root)]
    /\ UNCHANGED <<src, inodes, inodeOrder, metaSize, dataSize, cursor, dst, err>>

\* Image.Inode(nid) for the inode of a node, then Inode.Lookup(name) or
\* Inode.IterDirents on it
CallInode ==
    /\ pc = "open"
    /\ \E path \in DOMAIN src.nodes :
         Bind(imageInode(dst, fs.sb, inodes[path].Ino), LAMBDA r :
             /\ r.err = ""
             /\ \/ \E name \in {Dot, NameF} :
                       call' = [op |-> "Inode.Lookup", path |-> path, name |-> name,
                                res |-> Lookup(dst, fs.sb, r.ino, name)]
                \/ call' = [op |-> "Inode.IterDirents", path |-> path,
                            res |-> IterDirents(dst, fs.sb, r.ino)])
    /\ pc' = "called"
    /\ UNCHANGED <<src, inodes, inodeOrder, metaSize, dataSize, cursor, dst, err, fs>>

NextResolve ==
    \/ OpenFs
    \/ CallStat
    \/ CallOpenStat
    \/ CallStatLink
    \/ CallReadLink
    \/ CallReadDir
    \/ CallOpenRead
    \/ CallInode
    \/ Return

SpecResolve == InitResolve /\ [][NextResolve]_vars

----------------------------------------------------------------------------
(* Concurrent calls: goroutines that share one Filesystem.  Every call     *)
(* reads the inode of the root entry first, through readInodeOnce; the     *)
(* rest of a call works on entries and inodes of its own.  call[g] is the  *)
(* call of goroutine g and where it is: "Do" before readInodeOnce.Do,      *)
(* "f" inside the function of the Once (with its mutex), "stored" after    *)
(* de.inode is assigned, "past" after Do returned, "returned".             *)

Goroutines == {1, 2}
Idle == [op |-> "none", at |-> "idle"]
ConcurrentOps == {"Stat", "OpenStat", "StatLink", "ReadLink", "ReadDir"}
ConcurrentPaths == {<<>>, <<NameL>>}
ConcurrentDamages == {"none", "xattr", "root"}

\* the outcome of a call on a Filesystem that no other call has used
aloneResult(img, sb, op, path) ==
    CASE op = "Stat" -> fsStat(img, sb, path)
      [] op = "OpenStat" -> fsOpenStat(img, sb, path)
      [] op = "StatLink" -> fsStatLink(img, sb, path)
      [] op = "ReadLink" -> fsReadLink(img, sb, path)
      [] op = "ReadDir" -> fsReadDir(img, sb, path)

\* sync.Once: the mutex of readInodeOnce is held by a goroutine inside f
onceLocked == \E g \in Goroutines : call[g].at \in {"f", "stored"}

InitConcurrent ==
    /\ \E damage \in ConcurrentDamages :
           /\ src = [nodes |-> SuperBlockTree.nodes, readlink |-> SuperBlockTree.readlink,
                     dstIsFile |-> SuperBlockTree.dstIsFile, damage |-> damage]
           /\ Bind(populateInodes(SuperBlockTree), LAMBDA p :
                  /\ inodeOrder = p.order
                  /\ Bind(firstPass(SuperBlockTree, p.order, p.inodes), LAMBDA f :
                         /\ inodes = f.inodes
                         /\ metaSize = f.metaSize
                         /\ dataSize = f.dataSize
                         /\ dst = damagedImage(SuperBlockTree, damage, p, f)))
    /\ pc = "done"
    /\ cursor = 1
    /\ err = ""
    /\ fs = NoFs
    /\ call = [g \in Goroutines |-> Idle]

\* a goroutine calls a method of the Filesystem
Begin(g) ==
    /\ pc = "open"
    /\ call[g].at = "idle"
    /\ \E op \in ConcurrentOps, path \in ConcurrentPaths :
           call' = [call EXCEPT ![g] = [op |-> op, path |-> path, at |-> "Do"]]
    /\ UNCHANGED <<src, pc, inodes, inodeOrder, metaSize, dataSize, cursor, dst, err, fs>>

\* readInodeOnce.Do: past it when it is done, into f with the mutex when it
\* is not; a goroutine waits while another one holds the mutex
Do(g) ==
    /\ pc = "open"
    /\ call[g].at = "Do"
    /\ ~onceLocked
    /\ call' = [call EXCEPT ![g].at = IF fs.root.done THEN "past" ELSE "f"]
    /\ UNCHANGED <<src, pc, inodes, inodeOrder, metaSize, dataSize, cursor, dst, err, fs>>

\* the function of the Once: Image.Inode(de.nid), then panic(err) or
\* de.inode = &ino; the panic leaves Do through its deferred done.Store(1)
\* and Unlock
Decode(g) ==
    /\ pc = "open"
    /\ call[g].at = "f"
    /\ Bind(imageInode(dst, fs.sb, fs.sb.RootNid), LAMBDA r :
           IF r.err # ""
           THEN /\ fs' = [fs EXCEPT !.root.done = TRUE,
                                    !.root.decodes = @ + 1]
                /\ call' = [call EXCEPT ![g] =
                               [op |-> call[g].op, path |-> call[g].path,
                                at |-> "returned",
                                res |-> [aloneResult(dst, fs.sb, call[g].op,
                                                     call[g].path)
                                         EXCEPT !.st = "panic", !.err = r.err]]]
           ELSE /\ fs' = [fs EXCEPT !.root.set = TRUE, !.root.inode = r.ino,
                                    !.root.decodes = @ + 1]
                /\ call' = [call EXCEPT ![g].at = "stored"])
    /\ UNCHANGED <<src, pc, inodes, inodeOrder, metaSize, dataSize, cursor, dst, err>>

\* the end of Do after f returned: done.Store(1), Unlock
Done(g) ==
    /\ pc = "open"
    /\ call[g].at = "stored"
    /\ fs' = [fs EXCEPT !.root.done = TRUE]
    /\ call' = [call EXCEPT ![g].at = "past"]
    /\ UNCHANGED <<src, pc, inodes, inodeOrder, metaSize, dataSize, cursor, dst, err>>

\* return *de.inode, nil and the rest of the call
Finish(g) ==
    /\ pc = "open"
    /\ call[g].at = "past"
    /\ call' = [call EXCEPT ![g] =
                   [op |-> call[g].op, path |-> call[g].path, at |-> "returned",
                    res |-> onRoot(fs.root, aloneResult(dst, fs.sb, call[g].op,
                                                        call[g].path))]]
    /\ UNCHANGED <<src, pc, inodes, inodeOrder, metaSize, dataSize, cursor, dst, err, fs>>

\* the caller takes the outcome
Returned(g) ==
    /\ pc = "open"
    /\ call[g].at = "returned"
    /\ call' = [call EXCEPT ![g] = Idle]
    /\ UNCHANGED <<src, pc, inodes, inodeOrder, metaSize, dataSize, cursor, dst, err, fs>>

NextConcurrent ==
    \/ OpenFs
    \/ \E g \in Goroutines :
          Begin(g) \/ Do(g) \/ Decode(g) \/ Done(g) \/ Finish(g) \/ Returned(g)

SpecConcurrent == InitConcurrent /\ [][NextConcurrent]_vars

----------------------------------------------------------------------------
(* The first loop of firstPass, one inode at a time, on directories of     *)
(* regular files whose sizes are around MaxInlineDataSize, so that the     *)
(* metadata of a tree fills more than one block.                           *)

MaxPlanFiles == 4   \* regular files in the directory
PlanSizes == {1, MaxInlineDataSize - 24, MaxInlineDataSize, MaxInlineDataSize + 1}
\* the name of the i-th file: "a", "b", ...
planName(i) == <<96 + i>>

\* the root with one regular file for each size given
planTree(sizes, mtime) ==
    [nodes |->
        (<<>> :> mkNode("dir", 493, <<>>, mtime))
        @@ [p \in {<<planName(i)>> : i \in 1..Len(sizes)} |->
               mkNode("reg", 420, Content(sizes[p[1][1] - 96], 1), mtime)],
     readlink |-> TRUE,
     dstIsFile |-> TRUE]
PlanTrees ==
    {planTree(sizes, mtime) :
        sizes \in UNION {[1..n -> PlanSizes] : n \in 1..MaxPlanFiles},
        mtime \in {0, 1}}

InitPlan ==
    /\ src \in PlanTrees
    /\ Bind(populateInodes(src), LAMBDA p :
           /\ inodeOrder = p.order
           /\ inodes = p.inodes)
    /\ pc = "plan"
    /\ metaSize = 0
    /\ dataSize = 0
    /\ cursor = 1
    /\ dst = EmptyImage
    /\ err = ""
    /\ fs = NoFs
    /\ call = NoCall

\* one iteration of the first loop of firstPass; call keeps the path of the
\* inode and the metadata cursor the iteration started with
PlanStep ==
    /\ pc = "plan"
    /\ cursor <= Len(inodeOrder)
    /\ Bind(firstPassStep(src, [inodes |-> inodes, metaSize |-> metaSize,
                                dataSize |-> dataSize, err |-> ""],
                          inodeOrder[cursor]),
            LAMBDA st :
                /\ inodes' = st.inodes
                /\ metaSize' = st.metaSize
                /\ dataSize' = st.dataSize
                /\ err' = st.err
                /\ pc' = IF st.err # "" THEN "failed" ELSE "plan")
    /\ call' = [op |-> "plan", path |-> inodeOrder[cursor], before |-> metaSize]
    /\ cursor' = cursor + 1
    /\ UNCHANGED <<src, inodeOrder, dst, fs>>

\* the end of the first loop: the metadata size is rounded up to a block and
\* the raw block addresses are fixed up
PlanFixup ==
    /\ pc = "plan"
    /\ cursor > Len(inodeOrder)
    /\ Bind(firstPassFixup([inodes |-> inodes, metaSize |-> metaSize,
                            dataSize |-> dataSize, err |-> ""],
                           roundUp(metaSize, BlockSize)),
            LAMBDA st :
                /\ inodes' = st.inodes
                /\ metaSize' = st.metaSize)
    /\ pc' = "planned"
    /\ UNCHANGED <<src, inodeOrder, dataSize, cursor, dst, err, fs, call>>

NextPlan == PlanStep \/ PlanFixup

SpecPlan == InitPlan /\ [][NextPlan]_vars

----------------------------------------------------------------------------
(* Image.Inode on inode records made by hand: one record of either layout, *)
(* with any data layout, xattr count, size and raw block address, at a nid *)
(* of an image with the superblock Create writes.                          *)

RecordLayouts == {"compact", "extended"}
RecordDataLayouts == 0..4
RecordNids == {0, 3}
RecordAddrs == {0, 2}
\* sizes whose tail is zero, small, and on both sides of what a block
\* leaves after a record of either size
RecordSizes ==
    {0, 1, BlockSize - InodeExtendedSize, BlockSize - InodeExtendedSize + 1,
     BlockSize - InodeCompactSize, BlockSize - InodeCompactSize + 1,
     BlockSize, BlockSize + 1, 2 * BlockSize + BlockSize - InodeCompactSize + 1}

\* the modes of the records: the seven file types with some permission
\* bits and any of setuid (04000), setgid (02000) and sticky (01000)
RecordTypes == {S_IFREG, S_IFDIR, S_IFLNK, S_IFCHR, S_IFBLK, S_IFIFO, S_IFSOCK}
RecordPerms == {0, 420}
RecordModes ==
    {t + p + u + g + v : t \in RecordTypes, p \in RecordPerms,
                         u \in {0, 2048}, g \in {0, 1024}, v \in {0, 512}}

recordOf(layout, dataLayout, xattr, size, addr, mode) ==
    [layout |-> layout,
     Format |-> setBits(setBits(0, IF layout = "compact" THEN InodeLayoutCompact
                                   ELSE InodeLayoutExtended, 0, 1),
                        dataLayout, 1, 3),
     XattrCount |-> xattr, Mode |-> mode, Nlink |-> 1, Size |-> size,
     RawBlockAddr |-> addr, Ino |-> 0, UID |-> 0, GID |-> 0,
     Mtime |-> 0, MtimeNsec |-> 0]

\* the superblock, without the checksum feature, and the record at its nid
\* in the metadata; the image ends with the record
recordImage(rec, nid) ==
    WriteAt(WriteAt(EmptyImage, SuperBlockOffset,
                    encodeSuperBlock(newSuperBlock(1, BlockSize, 0, MetaBlockAddr))),
            inodeOffset(nid), encodeInode(rec))

InitInode ==
    /\ \E layout \in RecordLayouts, dataLayout \in RecordDataLayouts,
          xattr \in {0, 1}, size \in RecordSizes, addr \in RecordAddrs,
          nid \in RecordNids, mode \in RecordModes :
           \* every record as a regular file, one record with every mode
           /\ \/ mode = S_IFREG + 420
              \/ /\ dataLayout = InodeDataLayoutFlatPlain
                 /\ xattr = 0 /\ size = 1 /\ addr = 2 /\ nid = 0
           /\ src = [rec |-> recordOf(layout, dataLayout, xattr, size, addr, mode),
                     dataLayout |-> dataLayout, nid |-> nid]
           /\ dst = recordImage(recordOf(layout, dataLayout, xattr, size, addr, mode),
                                nid)
    /\ pc = "done"
    /\ inodes = <<>>
    /\ inodeOrder = <<>>
    /\ metaSize = BlockSize
    /\ dataSize = 0
    /\ cursor = 1
    /\ err = ""
    /\ fs = NoFs
    /\ call = NoCall

\* Image.Inode(nid)
CallImageInode ==
    /\ pc = "open"
    /\ call' = [op |-> "Inode", nid |-> src.nid,
                res |-> imageInode(dst, fs.sb, src.nid)]
    /\ pc' = "called"
    /\ UNCHANGED <<src, inodes, inodeOrder, metaSize, dataSize, cursor, dst, err, fs>>

NextInode == OpenFs \/ CallImageInode \/ Return

SpecInode == InitInode /\ [][NextInode]_vars

----------------------------------------------------------------------------
(* The callback of populateInodes on one node: a directory with a number   *)
(* of entries, or a regular file, with its owner and modification time.    *)

\* numbers of entries, user and group ids on both sides of what 16 bits hold
EntryCounts == {0, 1, MaxUint16 - 3, MaxUint16 - 2, MaxUint16 - 1, MaxUint16}
OwnerIds == {0, MaxUint16, MaxUint16 + 1}

InitLinks ==
    /\ \E type \in {"dir", "reg"}, entries \in EntryCounts,
          uid \in OwnerIds, gid \in OwnerIds, mtime \in {0, 1} :
           /\ type = "reg" => entries = 0
           /\ src = [node |-> [mkNode(type, 493, <<>>, mtime)
                                   EXCEPT !.uid = uid, !.gid = gid],
                     entries |-> entries]
    /\ pc = "populate"
    /\ inodes = <<>>
    /\ inodeOrder = <<>>
    /\ metaSize = 0
    /\ dataSize = 0
    /\ cursor = 1
    /\ dst = EmptyImage
    /\ err = ""
    /\ fs = NoFs
    /\ call = NoCall

\* the callback: toInode(fi, nlink) is stored in w.inodes
PopulateNode ==
    /\ pc = "populate"
    /\ inodes' = (<<>> :> toInode(src.node,
                                 linkCount(src.node.mode.type = "dir", src.entries)))
    /\ inodeOrder' = <<<<>>>>
    /\ pc' = "populated"
    /\ UNCHANGED <<src, metaSize, dataSize, cursor, dst, err, fs, call>>

NextLinks == PopulateNode

SpecLinks == InitLinks /\ [][NextLinks]_vars

----------------------------------------------------------------------------
(* Properties of Create and of the reader on the image it wrote.           *)

\* the superblock fields of an image as its bytes give them, and the
\* CRC32C of the first block from the superblock on, the four bytes of the
\* stored checksum taken as zero
storedByte(img, o) == IF o < Len(img.bytes) THEN ByteAt(img, o) ELSE 0
storedMagic(img) == [i \in 1..4 |-> storedByte(img, SuperBlockOffset + i - 1)]
storedChecksum(img) == [i \in 1..4 |-> storedByte(img, SuperBlockOffset + 4 + i - 1)]
checksumBit(img) == storedByte(img, SuperBlockOffset + 8) % 2 = 1
storedIncompat(img) == [i \in 1..4 |-> storedByte(img, SuperBlockOffset + 80 + i - 1)]
firstBlockChecksum(img) ==
    Not32(crc32Checksum([i \in 1..(BlockSize - SuperBlockOffset) |->
                            IF i \in 5..8 THEN 0
                            ELSE storedByte(img, SuperBlockOffset + i - 1)]))
superBlockValid(img) ==
    /\ storedMagic(img) = SuperBlockMagicV1
    /\ storedIncompat(img) = <<0, 0, 0, 0>>
    /\ checksumBit(img) => storedChecksum(img) = firstBlockChecksum(img)

\* Create has returned nil
Created == pc \in {"done", "open", "openFailed", "called"}

\* the walk of the image has ended
Walked == pc = "called" /\ call.op = "Walk"

\* the paths of the regular files of the source
srcRegular(fsys) == {p \in DOMAIN fsys.nodes : fsys.nodes[p].mode.type = "reg"}

\* C1: Create on an empty destination succeeds, Open succeeds on what it
\* wrote, and the recursive walk of the opened image yields the tree of the
\* source: the same paths, types, permission bits, sizes, contents of
\* regular files and targets of symlinks.
C1_RoundTrip ==
    /\ pc # "failed"
    /\ pc # "openFailed"
    /\ Walked => call.res = srcTree(src)

\* C2: the regular files the walk of the produced image finds are those of
\* the source, and each of them, opened by its path and read to io.EOF,
\* has the bytes of the source file.
C2_DirhashStable ==
    Walked =>
        /\ {r.path : r \in {x \in call.res : x.st = "ok" /\ x.type = "reg"}}
               = srcRegular(src)
        /\ \A r \in call.res :
               r.path \in srcRegular(src) => r.data = src.nodes[r.path].data

\* C6: Lookup(n) on a directory Create wrote returns the dirent of n when
\* the directory was written with the name n (the dirent with the inode
\* number of the child, for a child), and ErrNotExist when it was not.
C6_LookupWritten ==
    (pc = "called" /\ call.op = "Lookup") =>
        IF \E k \in 1..Len(dirNames(src, call.dir)) :
               dirNames(src, call.dir)[k] = call.name
        THEN /\ call.res.err = ""
             /\ Append(call.dir, call.name) \in DOMAIN inodes =>
                    call.res.d.Nid = inodes[Append(call.dir, call.name)].Ino
        ELSE call.res.err = "ErrNotExist"

\* firstPass has planned every inode
Planned == pc \notin {"populate", "firstPass", "failed"}

\* C7: every inode firstPass marks FlatInline has a size whose remainder
\* by the block size is above 0 and at most the block size less the size
\* of the inode record, which is what the reader asks of a FlatInline
\* inode.
C7_InlineTail ==
    Planned =>
        \A p \in DOMAIN inodes :
            isInlined(inodes[p]) =>
                /\ inodes[p].Size % BlockSize > 0
                /\ inodes[p].Size % BlockSize <= BlockSize - inodeRecordSize(inodes[p])
                /\ inlineTailOk(inodes[p].Size, BlockSize, inodeRecordSize(inodes[p]))

\* whether the checksum stored in the superblock sb is the one the reader
\* computes over the first block of the image
checksumAgrees(sb, computed) == computed.ok /\ computed.sum = sb.Checksum
checksumVerifies(img, sb) == checksumAgrees(sb, computedChecksum(img, sb))

\* C8: when Create has returned nil, the checksum stored in the superblock
\* is the one the reader computes over the first block of the image.
C8_ChecksumLaw ==
    pc = "done" =>
        /\ bytesAt(dst, SuperBlockOffset, SuperBlockSize).ok
        /\ checksumVerifies(dst,
               decodeSuperBlock(bytesAt(dst, SuperBlockOffset, SuperBlockSize).data))

\* the image offset of the data of a planned inode
dataStart(ino) ==
    IF isInlined(ino) THEN inodeOffset(ino.Ino) + inodeRecordSize(ino)
    ELSE ino.RawBlockAddr * BlockSize

\* the offsets, from the start of the payload of a directory, of the
\* dirent records of its blocks
direntOffsets(blocks) ==
    UNION {{Len(padBlock(encodeLoop(SubSeq(blocks, 1, j - 1), 1, <<>>), j > 1))
              + (k - 1) * DirentSize : k \in 1..Len(blocks[j].entries)} :
                j \in 1..Len(blocks)}

\* the dirent blocks of the directory at path p
blocksOf(p) == splitIntoDirentBlocks(dirDirents(src, inodes, p), dirNames(src, p))

\* whether the inode record of ino and, for a directory with these offsets
\* of dirents in its payload, every dirent record are aligned, the inode
\* record being one of the writes made to the image
recordsAligned(img, ino, off, offsets) ==
    /\ off % InodeSlotSize = 0
    /\ \E k \in 1..Len(img.ext) :
           img.ext[k] = [off |-> off, n |-> inodeRecordSize(ino)]
    /\ \A o \in offsets : (dataStart(ino) + o) % 4 = 0

\* C9: Create never fails on the alignment of an inode; every inode record
\* is written at an offset that is a multiple of 32, and every dirent
\* record at an offset that is a multiple of 4.
C9_Alignment ==
    /\ err # "offset is not properly aligned"
    /\ pc = "done" =>
           \A p \in DOMAIN inodes :
               recordsAligned(dst, inodes[p], inodeOffset(inodes[p].Ino),
                              IF statFormat(inodes[p].Mode) = S_IFDIR
                              THEN direntOffsets(blocksOf(p)) ELSE {})

\* Create has returned nil on a tree with a directory of several blocks
\* and a directory stored inline
C9_Witness ==
    /\ pc = "done"
    /\ \E p \in DOMAIN inodes :
           /\ statFormat(inodes[p].Mode) = S_IFDIR
           /\ ~isInlined(inodes[p])
           /\ Len(blocksOf(p)) >= 2
    /\ \E p \in DOMAIN inodes :
           statFormat(inodes[p].Mode) = S_IFDIR /\ isInlined(inodes[p])

\* the entries ReadDir owes for a directory's dirents: one for each name
\* that is neither "." nor "..", in the order of the dirents
keptDirents(names) ==
    SelectSeq([k \in 1..Len(names) |-> k],
              LAMBDA k : names[k] # Dot /\ names[k] # DotDot)
listingOf(names, dirents, keep) ==
    [j \in 1..Len(keep) |->
        [name |-> names[keep[j]], typ |-> dirents[keep[j]].FileType,
         nid |-> dirents[keep[j]].Nid]]
listing(names, dirents) == listingOf(names, dirents, keptDirents(names))
readDirLists(res, names, dirents) ==
    res.st = "ok" /\ res.entries = listing(names, dirents)

\* C12: for every directory of the image, ReadDir returns exactly one entry
\* for each dirent whose name is neither "." nor "..", with the dirent's
\* name and type, in the order of the dirents, none missing and none twice,
\* also when the directory spans several blocks.
C12_ReadDirListing ==
    (pc = "called" /\ call.op = "ReadDir" /\ call.path \in srcDirs(src)) =>
        readDirLists(call.res, dirNames(src, call.path),
                     dirDirents(src, inodes, call.path))

\* a source Create does not support: it has a character device, a block
\* device, a FIFO or a socket, or a symlink without ReadLink on the source
unsupportedSource(fsys) ==
    \E p \in DOMAIN fsys.nodes :
        \/ fsys.nodes[p].mode.type \in SpecialTypes
        \/ fsys.nodes[p].mode.type = "lnk" /\ ~fsys.readlink

\* C17: for a source with a character device, a block device, a FIFO or a
\* socket, or with a symlink and no ReadLink, Create returns an error, and
\* no superblock is ever written to the destination.
C17_UnsupportedSources ==
    unsupportedSource(src) =>
        /\ pc \in {"populate", "firstPass", "failed"}
        /\ pc = "failed" => err # ""
        /\ storedMagic(dst) # SuperBlockMagicV1

\* the blocks of the out-of-line payloads planned before the k-th inode of
\* the order: its offset in the data region after the first pass
RECURSIVE blocksBefore(_, _, _)
blocksBefore(order, ino, k) ==
    IF k <= 1 THEN 0
    ELSE blocksBefore(order, ino, k - 1)
         + (IF isInlined(ino[order[k - 1]]) THEN 0
            ELSE roundUp(ino[order[k - 1]].Size, BlockSize) \div BlockSize)
placedInDataRegion(order, ino, k, base) ==
    isInlined(ino[order[k]])
    \/ /\ ino[order[k]].RawBlockAddr = base + blocksBefore(order, ino, k)
       /\ ino[order[k]].RawBlockAddr * BlockSize >= BlockSize + metaSize

\* C18: after the fix-up pass of firstPass every out-of-line inode, the
\* first one planned included, has RawBlockAddr = base + its block offset
\* of the first pass, with base = 1 + metaSize / BlockSize; so its data is
\* written at or after the end of the metadata region, never in block 0 or
\* in the metadata region.
C18_DataRegionPlacement ==
    Planned =>
        \A k \in 1..Len(inodeOrder) :
            placedInDataRegion(inodeOrder, inodes, k, 1 + metaSize \div BlockSize)

\* the names of the blocks of a directory payload are sorted: strictly
\* ascending within each block, and the first name of a block is greater
\* than every name of the block before it
ascending(names) ==
    \A i \in 1..(Len(names) - 1) : Compare(names[i], names[i + 1]) < 0
sortedBlocks(blocks) ==
    /\ \A b \in 1..Len(blocks) : ascending(blocks[b].names)
    /\ \A b \in 2..Len(blocks) :
          \A i \in 1..Len(blocks[b - 1].names) :
              Compare(blocks[b - 1].names[i], blocks[b].names[1]) < 0

\* C19: in every directory payload Create writes, the names of the
\* dirents, "." and ".." together with the children, are in strictly
\* ascending byte order within each block, and the first name of each block
\* is greater than every name of the block before it.
C19_SortedDirectories ==
    Created =>
        \A dir \in srcDirs(src) :
            sortedBlocks(splitIntoDirentBlocks(dirDirents(src, inodes, dir),
                                               dirNames(src, dir)))

\* the fields C20 asks of the superblock sb read back from the image
finalSuperBlock(sb, nInodes, meta, data) ==
    /\ sb.Magic = SuperBlockMagicV1
    /\ sb.BlockSizeBits = 12
    /\ sb.Inodes = nInodes
    /\ sb.Blocks = 1 + (meta + data) \div 4096
    /\ sb.MetaBlockAddr = 1
    /\ sb.FeatureCompat % 2 = 1

\* C20: the superblock Create writes at offset 1024 has the magic
\* 0xE0F5E1E2, block_size_bits 12, inodes equal to the number of planned
\* inodes, blocks = 1 + (metaSize + dataSize) / 4096, meta_block_addr 1 and
\* the checksum bit of feature_compat set, so that a reader of the image
\* verifies the stored checksum.
C20_FinalSuperBlock ==
    Created =>
        finalSuperBlock(decodeSuperBlock([i \in 1..SuperBlockSize |->
                                             ByteAt(dst, SuperBlockOffset + i - 1)]),
                        Cardinality(DOMAIN inodes), metaSize, dataSize)

\* the write of the superblock in the log of the destination, and whether
\* the log has the writes of an inode: its record, and its data if any
superBlockWrite == [off |-> SuperBlockOffset, n |-> SuperBlockSize]
loggedBefore(log, last, e) == \E k \in 1..(last - 1) : log[k] = e
inodeWritten(log, last, ino) ==
    /\ loggedBefore(log, last, [off |-> inodeOffset(ino.Ino), n |-> inodeRecordSize(ino)])
    /\ ino.Size > 0 => loggedBefore(log, last, [off |-> dataStart(ino), n |-> ino.Size])
superBlockLast(log, ino) ==
    /\ Len(log) > 0
    /\ log[Len(log)] = superBlockWrite
    /\ ~loggedBefore(log, Len(log), superBlockWrite)
    /\ \A p \in DOMAIN ino : inodeWritten(log, Len(log), ino[p])

\* C23: in every run of Create the superblock is written at offset 1024
\* after every inode record, every inline data and every out-of-line data;
\* no write after it touches the bytes 1024..1152; and when an earlier step
\* fails the superblock is never written.
C23_SuperBlockLast ==
    IF pc \in {"truncate", "done", "open", "openFailed", "called"}
    THEN superBlockLast(dst.ext, inodes)
    ELSE ~loggedBefore(dst.ext, Len(dst.ext) + 1, superBlockWrite)

\* Create has returned nil after it wrote inline data and out-of-line data
C23_Witness ==
    /\ pc = "done"
    /\ dst.ext[Len(dst.ext)] = superBlockWrite
    /\ \E p \in DOMAIN inodes : isInlined(inodes[p]) /\ inodes[p].Size > 0
    /\ \E p \in DOMAIN inodes : ~isInlined(inodes[p])

------------------------------------------------------------\* the nids writeMetadata stores in the payload of directory dir name the
\* inodes they stand for: "." the directory, ".." its parent, every other
\* dirent the child of its name
direntNids(fsys, ino, dir, dirents, names) ==
    \A k \in 1..Len(dirents) :
        dirents[k].Nid =
            CASE names[k] = Dot -> ino[dir].Ino
              [] names[k] = DotDot -> ino[SubSeq(dir, 1, Len(dir) - 1)].Ino
              [] OTHER -> ino[Append(dir, names[k])].Ino

\* C25: in every image Create produces, the superblock's root_nid is the
\* nid of the root directory's inode, each child dirent carries the nid at
\* which the child's inode was written, each directory's "." dirent carries
\* the directory's own nid, and each non-root directory's ".." dirent
\* carries its parent's nid.
C25_NidReferences ==
    (pc = "done" /\ err = "") =>
        /\ storedByte(dst, SuperBlockOffset + 14)
               + 256 * storedByte(dst, SuperBlockOffset + 15) = inodes[<<>>].Ino
        /\ \A dir \in srcDirs(src) :
               direntNids(src, inodes, dir, dirDirents(src, inodes, dir),
                          dirNames(src, dir))

\* two byte ranges of the destination have no byte in common
disjointWrites(a, b) == a.off + a.n <= b.off \/ b.off + b.n <= a.off

\* C26: in every run of Create, the byte ranges it writes (the superblock,
\* each inode record followed by its inline data, each out-of-line data
\* extent) are pairwise disjoint, and all of them lie below blocks * 4096,
\* the length the destination is truncated to.
C26_DisjointExtents ==
    (pc = "done" /\ err = "") =>
        /\ \A i \in 1..Len(dst.ext) : \A j \in (i + 1)..Len(dst.ext) :
               disjointWrites(dst.ext[i], dst.ext[j])
        /\ \A i \in 1..Len(dst.ext) :
               dst.ext[i].off + dst.ext[i].n
                   <= (1 + (metaSize + dataSize) \div 4096) * 4096

\* the image holds the payload of the inode ino of a directory where the
\* inode says: after the inode when it is inlined, at its raw block address
\* otherwise
payloadStored(img, ino, data) ==
    bytesAt(img,
            IF isInlined(ino) THEN inodeOffset(ino.Ino) + inodeRecordSize(ino)
            ELSE ino.RawBlockAddr * BlockSize,
            Len(data))
        = [ok |-> TRUE, data |-> data]

\* IterDirents on the inode i read from the image emits the names with
\* their nids and file types, in order
pageReadable(img, sb, i, names, dirents) ==
    /\ i.err = ""
    /\ IterDirents(img, sb, i.ino)
           = [err |-> "",
              entries |-> listingOf(names, dirents, [k \in 1..Len(names) |-> k])]

\* C27: for every ascending list of names of 1 to 255 bytes each,
\* IterDirents over the payload that encodeDirents produces (inline when at
\* most 1024 bytes, out of line otherwise) completes without a corrupted
\* dirent and emits exactly the names with their nids and file types, in
\* order, also for a payload of several blocks, where the last name of a
\* block that is not the last is followed by zero padding up to the block
\* boundary.
C27_ReadablePages ==
    (pc = "open" /\ call = NoCall) =>
        \A dir \in srcDirs(src) :
            payloadStored(dst, inodes[dir], dirData(src, inodes, dir).data) =>
                pageReadable(dst, fs.sb, imageInode(dst, fs.sb, inodes[dir].Ino),
                             dirNames(src, dir), dirDirents(src, inodes, dir))

----------------
(* Properties of path resolution.                                          *)

\* a call of the Filesystem that resolves a path has ended
Resolved ==
    pc = "called"
    /\ call.op \in {"Stat", "OpenStat", "StatLink", "ReadLink", "ReadDir", "Open"}

\* C3: path resolution ends: no call of resolve makes the same call of
\* resolve again without end; a cycle of symlinks is answered with an
\* error.
C3_ResolveTerminates ==
    Resolved => call.res.st \notin {"diverges", "overflow"}

\* C4: a failure to decode an inode is returned to the caller as an error
\* value; no call of the Filesystem panics.
C4_ErrorsReturned ==
    Resolved => call.res.st # "panic"

\* The node a path names in the source tree: the path after the symlinks
\* on it are replaced by their targets, all of them when followLast, all
\* but a symlink that is the last component otherwise; NoPath when a
\* component does not exist or more than fuel symlinks are followed.
NoPath == <<<<>>>>
RECURSIVE srcWalk(_, _, _, _, _)
srcWalk(fsys, cur, rest, followLast, fuel) ==
    IF rest = <<>> THEN cur
    ELSE Bind(Append(cur, Head(rest)), LAMBDA p :
        IF p \notin DOMAIN fsys.nodes THEN NoPath
        ELSE IF fsys.nodes[p].mode.type = "lnk" /\ (followLast \/ Len(rest) > 1)
        THEN IF fuel = 0 THEN NoPath
             ELSE srcWalk(fsys, <<>>,
                          linkComponents(cur, fsys.nodes[p].data) \o Tail(rest),
                          followLast, fuel - 1)
        ELSE srcWalk(fsys, p, Tail(rest), followLast, fuel))
srcResolve(fsys, path, followLast) ==
    srcWalk(fsys, <<>>, path, followLast, MaxResolveDepth)

\* the name a FileInfo of the node at path q carries
baseName(q) == IF q = <<>> THEN <<>> ELSE q[Len(q)]

\* whether the FileInfo res is that of the node at q of the source, under
\* the name given
statIs(res, name, q) ==
    /\ res.st = "ok"
    /\ res.name = name
    /\ res.ino.nid = inodes[q].Ino
    /\ inoMode(res.ino).type = src.nodes[q].mode.type
    /\ inoMode(res.ino).perm = src.nodes[q].mode.perm

\* what C11 asks of the outcome res of op(path), with link the node the
\* path names and target the node its symlinks lead to
statLinkAgree(op, path, res, link, target) ==
    IF src.nodes[link].mode.type = "lnk"
    THEN target # NoPath =>
           CASE op \in {"Stat", "OpenStat"} -> statIs(res, baseName(target), target)
             [] op = "StatLink" -> statIs(res, baseName(path), link)
             [] op = "ReadLink" ->
                  res.st = "ok" /\ res.target = src.nodes[link].data
             [] OTHER -> TRUE
    ELSE op \in {"Stat", "OpenStat", "StatLink"} => statIs(res, baseName(path), link)

\* C11: for a path whose last component is a symlink with an existing
\* target, Stat and Open().Stat() return the name, nid and mode of the
\* target, StatLink those of the symlink, and ReadLink the stored target;
\* for a path whose last component is not a symlink, Stat and StatLink
\* return the same inode, the one of the node.
C11_StatVersusStatLink ==
    (Resolved /\ src.damage = "none"
       /\ srcResolve(src, call.path, FALSE) # NoPath) =>
        statLinkAgree(call.op, call.path, call.res,
                      srcResolve(src, call.path, FALSE),
                      srcResolve(src, call.path, TRUE))

\* the type of the node at q of the source
srcType(q) == src.nodes[q].mode.type

\* what C13 asks of the outcome res of op(path), with link the node the
\* path names and target the node its symlinks lead to
wrongTypeFails(op, res, link, target) ==
    CASE op = "ReadDir" ->
           (target # NoPath /\ srcType(target) # "dir") =>
               res.st = "err" /\ res.err = "not a directory" /\ res.entries = <<>>
      [] op = "ReadLink" ->
           (link # NoPath /\ srcType(link) # "lnk") =>
               res.st = "err" /\ res.err = "ErrInvalid" /\ res.target = <<>>
      [] op = "Inode.Lookup" ->
           srcType(link) # "dir" => res.err = "ErrInvalid" /\ res.d = NoDirent
      [] op = "Inode.IterDirents" ->
           srcType(link) # "dir" => res.err = "ErrInvalid" /\ res.entries = <<>>
      [] OTHER -> TRUE

\* C13: ReadDir on a path that resolves to a node that is not a directory
\* fails with "not a directory" and returns no entry; ReadLink on a path
\* whose last component is not a symlink fails with ErrInvalid and returns
\* no target; Lookup and IterDirents on an inode that is not a directory
\* fail with ErrInvalid and produce no dirent.
C13_WrongNodeType ==
    (pc = "called" /\ src.damage = "none") =>
        wrongTypeFails(call.op, call.res,
                       IF call.op \in {"Inode.Lookup", "Inode.IterDirents"}
                       THEN call.path ELSE srcResolve(src, call.path, FALSE),
                       IF call.op = "ReadDir"
                       THEN srcResolve(src, call.path, TRUE) ELSE NoPath)

\* C14: Open fails and returns no Filesystem when the magic at offset 1024
\* is not 0xE0F5E1E2, when feature_incompat is not zero, or when the
\* checksum bit of feature_compat is set and the stored checksum differs
\* from the checksum of the first block; when the bit is clear the stored
\* checksum is not examined, and Open succeeds on a superblock that is
\* valid otherwise.
C14_SuperBlockValidation ==
    (pc \in {"open", "openFailed"}) =>
        /\ fs.open <=> superBlockValid(dst)
        /\ fs.open <=> pc = "open"
        /\ ~fs.open => fs = NoFs

\* Open has refused an image whose only fault is the stored checksum, with
\* the checksum bit set
C14_Witness ==
    /\ pc = "openFailed"
    /\ storedMagic(dst) = SuperBlockMagicV1
    /\ storedIncompat(dst) = <<0, 0, 0, 0>>
    /\ checksumBit(dst)
    /\ storedChecksum(dst) # firstBlockChecksum(dst)

\* C16: no call of the Filesystem changes state that outlives it: the
\* outcome of a call is the one the call has on a Filesystem that no call
\* has used, whatever calls came before it.
C16_NoStateAcrossCalls ==
    (pc = "called" /\ call.op \in ConcurrentOps) =>
        call.res = aloneResult(dst, fs.sb, call.op, call.path)

\* what C21 asks of the outcome res of StatLink or ReadLink on a path of
\* several components, with link the node the path names once the symlinks
\* before its last component are followed to the end
lastLeftUnresolved(op, path, res, link) ==
    CASE op = "StatLink" -> statIs(res, baseName(path), link)
      [] op = "ReadLink" ->
           srcType(link) = "lnk" =>
               res.st = "ok" /\ res.target = src.nodes[link].data
      [] OTHER -> TRUE

\* C21: in ReadLink and StatLink a symlink met at a component of the path
\* that is not the last one is followed all the way to the directory it
\* designates, also when its target is itself a symlink; only the last
\* component of the path is left unresolved.
C21_IntermediateSymlinks ==
    (Resolved /\ call.op \in {"StatLink", "ReadLink"} /\ src.damage = "none"
       /\ Len(call.path) > 1 /\ srcResolve(src, call.path, FALSE) # NoPath) =>
        lastLeftUnresolved(call.op, call.path, call.res,
                           srcResolve(src, call.path, FALSE))

------------------------------------------------------------\* the path leads through a symlink to a directory that holds, under the
\* last name of the path, a symlink with a relative target
relativeLinkBehindLink(fsys, path, dir) ==
    /\ dir # NoPath
    /\ dir # SubSeq(path, 1, Len(path) - 1)
    /\ Append(dir, path[Len(path)]) \in DOMAIN fsys.nodes
    /\ fsys.nodes[Append(dir, path[Len(path)])].mode.type = "lnk"
    /\ fsys.nodes[Append(dir, path[Len(path)])].data[1] # Slash

\* C28: a symlink with a relative target is resolved from the directory
\* that contains the symlink; when that directory was reached through
\* another symlink and the target contains "..", the entry reached is the
\* one that walking ".." from the containing directory gives, not the one
\* that the path prefix as it was written gives.
C28_RelativeTargets ==
    (Resolved /\ call.op \in {"Stat", "OpenStat"} /\ src.damage = "none"
       /\ Len(call.path) > 1
       /\ relativeLinkBehindLink(src, call.path,
              srcResolve(src, SubSeq(call.path, 1, Len(call.path) - 1), TRUE))
       /\ srcResolve(src, call.path, TRUE) # NoPath) =>
        statIs(call.res, baseName(srcResolve(src, call.path, TRUE)),
               srcResolve(src, call.path, TRUE))

----------------
(* Properties of the reader on the images made by hand.                    *)

\* the entries Inode.IterDirents emits for the root of the image
rootEntries == IterDirents(dst, fs.sb, imageInode(dst, fs.sb, fs.sb.RootNid).ino)

\* whether the outcome res of Lookup(name) agrees with the entries it that
\* IterDirents emitted
lookupAgrees(it, name, res) ==
    /\ it.err = ""
    /\ IF \E k \in 1..Len(it.entries) : it.entries[k].name = name
       THEN /\ res.err = ""
            /\ \E k \in 1..Len(it.entries) :
                   /\ it.entries[k].name = name
                   /\ it.entries[k].nid = res.d.Nid
                   /\ it.entries[k].typ = res.d.FileType
       ELSE res.err = "ErrNotExist"

imageBytes(img, off, n) == [i \in 1..n |-> ByteAt(img, off + i - 1)]

\* the bytes of a file as its inode places them: for FlatPlain the size
\* bytes at the data offset; for FlatInline the bytes at the data offset up
\* to the tail, then the tail at the inline data offset
placedBytes(img, ino, blockSize) ==
    IF inodeDataLayout(ino.format) = InodeDataLayoutFlatPlain
    THEN imageBytes(img, ino.dataOff, ino.size)
    ELSE imageBytes(img, ino.dataOff, ino.size - (ino.size % blockSize))
         \o imageBytes(img, ino.idataOff, ino.size % blockSize)

\* whether the bytes got of the Read calls so far are the first of the
\* bytes placed, and all size of them once io.EOF is returned
readAgrees(placed, size, got, eof) ==
    /\ Len(placed) = size
    /\ Len(got) <= size
    /\ got = SubSeq(placed, 1, Len(got))
    /\ eof => Len(got) = size

\* C10: the Read calls on a handle of Open yield, in order, the bytes the
\* inode places, and at io.EOF all size bytes of them have been read.
C10_FileRead ==
    (pc \in {"reading", "called"} /\ call.op = "Read" /\ call.st = "ok") =>
        readAgrees(placedBytes(dst, call.ino, sbBlockSize(fs.sb)), call.ino.size,
                   call.got, call.eof)

\* a FlatInline file with blocks before its tail has been read to io.EOF
\* by more than two Read calls
C10_Witness ==
    /\ pc = "called" /\ call.op = "Read" /\ call.st = "ok"
    /\ ~call.plain
    /\ call.ino.size > CraftBlockSize
    /\ call.eof
    /\ call.reads > 2
    /\ Len(call.got) = call.ino.size

\* the images made by hand are read as they were made: the root lists the
\* names, and every file opens and has the contents given to it
CraftRead ==
    /\ (pc = "called" /\ call.op = "IterRoot") =>
           /\ call.res.err = ""
           /\ [k \in 1..Len(call.res.entries) |-> call.res.entries[k].name]
                  = src.names
    /\ (pc = "called" /\ call.op = "Read") =>
           /\ call.st = "ok"
           /\ \E k \in 1..Len(src.names) :
                  src.names[k] = call.name /\ call.got = craftFileData(src, k)

----------------------------------------------------------------------------
(* Properties of concurrent calls.                                         *)

\* C15: in every interleaving of concurrent Open, Stat, ReadDir, ReadLink
\* and StatLink calls on one Filesystem each call returns what it returns
\* when run alone; the inode of the root entry, which the calls share, is
\* decoded at most once and is set for every call that is past the Once.
C15_ConcurrentReads ==
    /\ fs.root.decodes <= 1
    /\ \A g \in Goroutines :
          /\ call[g].at = "past" => fs.root.set
          /\ call[g].at = "returned" =>
                 call[g].res = aloneResult(dst, fs.sb, call[g].op, call[g].path)

----------------------------------------------------------------------------
(* Properties of the planner.                                              *)

\* the inode planned by the last iteration, when it is inlined, lies with
\* its data in one block of the metadata
inOneBlock(ino) ==
    (ino.Ino * InodeSlotSize) \div BlockSize
        = (ino.Ino * InodeSlotSize + inodeRecordSize(ino) + ino.Size - 1) \div BlockSize

\* C22: every inode firstPass plans as inline lies, record and inline data,
\* inside one 4096-byte block of the metadata, whatever inodes were planned
\* before it, and the metadata cursor is a multiple of 32 before and after
\* each inode.
C22_InlineInOneBlock ==
    (pc = "plan" /\ call.op = "plan") =>
        /\ call.before % 32 = 0
        /\ metaSize % 32 = 0
        /\ inodes[call.path].Ino * InodeSlotSize >= call.before
        /\ isInlined(inodes[call.path]) => inOneBlock(inodes[call.path])

\* an inlined inode was planned at the start of the next block because it
\* did not fit into the rest of the block the cursor was in
C22_Witness ==
    /\ pc = "plan" /\ call.op = "plan"
    /\ isInlined(inodes[call.path])
    /\ call.before % BlockSize # 0
    /\ inodes[call.path].Ino * InodeSlotSize = roundUp(call.before, BlockSize)

----------------------------------------------------------------------------
(* Properties of Image.Inode.                                              *)

\* whether C24 has Image.Inode refuse the record, of recordSize bytes
recordRefused(rec, dataLayout, recordSize, blockSize) ==
    \/ rec.XattrCount # 0
    \/ dataLayout \notin {InodeDataLayoutFlatPlain, InodeDataLayoutFlatInline}
    \/ /\ dataLayout = InodeDataLayoutFlatInline
       /\ \/ rec.Size % blockSize = 0
          \/ rec.Size % blockSize > blockSize - recordSize

\* the inode C24 has Image.Inode return for the record at off
recordDecoded(ino, rec, dataLayout, recordSize, blockSize, off) ==
    /\ ino.size = rec.Size
    /\ ino.dataOff = rec.RawBlockAddr * blockSize
    /\ ino.blocks = rec.Size \div blockSize
                    + (IF rec.Size % blockSize = 0 THEN 0 ELSE 1)
    /\ ino.idataOff = IF dataLayout = InodeDataLayoutFlatInline
                      THEN off + recordSize ELSE 0

\* C24: Image.Inode(nid) reads the record at meta_block_addr * block_size
\* + nid * 32; it returns an error and no inode when the xattr count is
\* not zero, when the data layout is neither FlatPlain nor FlatInline, or
\* when the layout is FlatInline and the tail, size mod block_size, is 0
\* or greater than block_size - record_size; otherwise it returns the
\* inode with data_offset = raw_block_addr * block_size, block_count =
\* ceil(size / block_size), and inline_data_offset = offset + record_size
\* for FlatInline and 0 for FlatPlain.
C24_InodeDecoding ==
    (pc = "called" /\ call.op = "Inode") =>
        IF recordRefused(src.rec, src.dataLayout, inodeRecordSize(src.rec), 4096)
        THEN call.res.err # "" /\ call.res.ino = NoInode
        ELSE /\ call.res.err = ""
             /\ recordDecoded(call.res.ino, src.rec, src.dataLayout,
                              inodeRecordSize(src.rec), 4096,
                              1 * 4096 + src.nid * 32)

\* Image.Inode has refused a FlatInline record whose tail is one byte more
\* than the block leaves after the record
C24_Witness ==
    /\ pc = "called" /\ call.op = "Inode"
    /\ call.res.err # ""
    /\ src.rec.XattrCount = 0
    /\ src.dataLayout = InodeDataLayoutFlatInline
    /\ src.rec.Size % 4096 = 4096 - inodeRecordSize(src.rec) + 1

\* C29: for every on-disk mode m of one of the seven file types, with any
\* permission bits and any of setuid, setgid and sticky, Inode.Mode() and
\* then statModeFromFileMode give m again.
C29_ModeRoundTrip ==
    (pc = "called" /\ call.op = "Inode" /\ call.res.err = "") =>
        statModeFromFileMode(inoMode(call.res.ino)) = src.rec.Mode

----------------------------------------------------------------------------
(* Properties of populateInodes on one node.                               *)

\* the compact inode ino stores the link count, the user id and the group
\* id as they are, each at most 65535
storedWhole(ino, nlink, uid, gid) ==
    /\ nlink <= 65535 /\ ino.Nlink = nlink
    /\ uid <= 65535 /\ ino.UID = uid
    /\ gid <= 65535 /\ ino.GID = gid

\* C30: whenever a node is stored as a compact inode, the link count
\* (children + 2 for a directory, 1 otherwise), the user id and the group
\* id are stored without wrap-around, each at most 65535; a node for which
\* one of them is larger is stored as an extended inode.
C30_NoTruncation ==
    (pc = "populated" /\ inodes[<<>>].layout = "compact") =>
        storedWhole(inodes[<<>>],
                    IF src.node.mode.type = "dir" THEN src.entries + 2 ELSE 1,
                    src.node.uid, src.node.gid)

====
